---- MODULE Spec2Model ----
(***************************************************************************)
(* Model of the monitoring toolkit: the Teams notifier                     *)
(* (src/infa/pc_mdm_monitor.py) and the dashboards (src/usage/mdm_jobs.py, *)
(* src/usage/pc_jobs.py).                                                  *)
(*                                                                         *)
(* A datetime is a record of its calendar fields, compared field by field  *)
(* as Python and SQL Server compare them.  A text is a sequence of         *)
(* one-character strings.  The two glyphs are written by their code point. *)
(***************************************************************************)
EXTENDS Integers, Sequences, FiniteSets, TLC

VARIABLES
    proc,           \* the program that runs: the notifier or a dashboard page
    now,            \* the wall clock (datetime.now())
    REP_WFLOW_RUN,  \* repository table of workflow runs
    REP_SESS_LOG,   \* repository table of session runs
    JOB_VIEW,       \* the jg/jgc/jc join of the MDM job tables
    workflows,      \* monitor(): result of get_recent_workflows_and_sessions
    sessions,
    wf_window,      \* locals yesterday_10pm, today_midnight of that fetch
    jobs,           \* monitor(): result of get_recent_jobs
    jobs_window,    \* locals yesterday_10pm, today_midnight of that fetch
    mdm_dash,       \* locals and results of load_mdm_data
    pc_dash,        \* locals and results of load_pc_data
    pc_service,     \* result of check_pc_service
    mdm_apps,       \* check_mdm_apps: the dict `data`
    appPc,          \* check_mdm_apps: position in the function
    appEnv,         \* check_mdm_apps: index of the environment of the loop
    deployments,    \* check_mdm_apps: the list `deployments`
    pending,        \* check_mdm_apps: deployments still to be read
    probe,          \* history: what the probe of each environment met
    pc_chat,        \* result of format_pc_chat
    mdm_chat,       \* result of format_mdm_chat
    pc_summary,     \* result of format_pc_summary
    mdm_summary,    \* result of format_mdm_summary
    svc,            \* check_pc_service: position of the loop, what it met
    mpc,            \* position in run_scheduler / monitor()
    cycle,          \* history: the monitor() runs the scheduler has fired
    next_run,       \* when the scheduled job is due
    sent,           \* history: the send_to_teams calls of the cycle
    log,            \* the failure lines printed in the cycle
    error,          \* the exception the last failing call ended with
    conns,          \* per fetch, the connections opened and not closed
    again,          \* results of the two calls of a formatter
    heap,           \* formatter called twice: the lists and dicts of the calls
    frame,          \* formatter called twice: the call that is running
    output_file,    \* usage probe: the rows of the CSV file, or absent
    written         \* history: the rows list of each run of the probe

dbVars == <<REP_WFLOW_RUN, REP_SESS_LOG, JOB_VIEW>>
fetchVars == <<workflows, sessions, wf_window, jobs, jobs_window>>
dashVars == <<mdm_dash, pc_dash>>
appVars == <<mdm_apps, appPc, appEnv, deployments, pending, probe>>
outVars == <<pc_chat, mdm_chat, pc_summary, mdm_summary>>
schedVars == <<cycle, next_run>>
usageVars == <<output_file, written>>
callVars == <<heap, frame>>
vars == <<proc, now, dbVars, fetchVars, dashVars, pc_service, appVars, outVars,
          svc, mpc, schedVars, sent, log, error, conns, again, usageVars,
          callVars>>

(***************************************************************************)
(* Bounds of the model.                                                    *)
(***************************************************************************)
MaxRows == 2        \* rows of a repository table
MaxCodeRows == 1    \* rows of a table when the status codes are varied
MaxFmtRows == 2     \* workflow and session rows handed to a PowerCenter formatter
MaxJobs == 3        \* batch-job rows handed to an MDM formatter

BoundedSeq(S, n) == UNION {[1..k -> S] : k \in 0..n}

(***************************************************************************)
(* datetime                                                                *)
(***************************************************************************)
Dt(y, mo, d, h, mi, s, us) ==
    [year |-> y, month |-> mo, day |-> d, hour |-> h, minute |-> mi,
     second |-> s, microsecond |-> us]

\* A NULL / NaT timestamp: no datetime has year 0.
NullDt == Dt(0, 0, 0, 0, 0, 0, 0)
IsNullDt(t) == t.year = 0

DtLT(a, b) ==
    \/ a.year < b.year
    \/ /\ a.year = b.year
       /\ \/ a.month < b.month
          \/ /\ a.month = b.month
             /\ \/ a.day < b.day
                \/ /\ a.day = b.day
                   /\ \/ a.hour < b.hour
                      \/ /\ a.hour = b.hour
                         /\ \/ a.minute < b.minute
                            \/ /\ a.minute = b.minute
                               /\ \/ a.second < b.second
                                  \/ /\ a.second = b.second
                                     /\ a.microsecond < b.microsecond
DtLE(a, b) == a = b \/ DtLT(a, b)

IsLeap(y) == (y % 4 = 0) /\ ((y % 100 # 0) \/ (y % 400 = 0))
DaysInMonth(y, mo) ==
    IF mo = 2 THEN (IF IsLeap(y) THEN 29 ELSE 28)
    ELSE IF mo \in {4, 6, 9, 11} THEN 30 ELSE 31

\* date - timedelta(days=1)
PrevDay(t) ==
    IF t.day > 1 THEN [t EXCEPT !.day = t.day - 1]
    ELSE IF t.month > 1
         THEN [t EXCEPT !.month = t.month - 1,
                        !.day = DaysInMonth(t.year, t.month - 1)]
         ELSE [t EXCEPT !.year = t.year - 1, !.month = 12, !.day = 31]

\* now.replace(hour=0, minute=0, second=0, microsecond=0)
Midnight(t) ==
    [t EXCEPT !.hour = 0, !.minute = 0, !.second = 0, !.microsecond = 0]

\* t - datetime.timedelta(hours=h), 0 <= h <= 24
MinusHours(t, h) ==
    IF t.hour >= h THEN [t EXCEPT !.hour = t.hour - h]
    ELSE [PrevDay(t) EXCEPT !.hour = t.hour + 24 - h]

\* datetime.combine(d, time(h, mi))
Combine(d, h, mi) ==
    [d EXCEPT !.hour = h, !.minute = mi, !.second = 0, !.microsecond = 0]

\* The window of a notifier fetch: yesterday_10pm, today_midnight.
NotifierWindowHours == 2
today_midnight(t) == Midnight(t)
\* Mutant: 22:00 of the same day, the day is not stepped back.
Mut_yesterday_10pm(t) == [today_midnight(t) EXCEPT !.hour = 22]
yesterday_10pm(t) == MinusHours(today_midnight(t), NotifierWindowHours)
NotifierWindow(t) == [start |-> yesterday_10pm(t), end |-> today_midnight(t)]

\* The window of a dashboard loader: start_time, end_time.
DashStartHour == 22
DashEndHour == 10
DashWindow(t) ==
    [start |-> Combine(PrevDay(Midnight(t)), DashStartHour, 0),
     end |-> Combine(Midnight(t), DashEndHour, 0)]

NoWindow == [start |-> NullDt, end |-> NullDt]

(***************************************************************************)
(* The CASE RUN_STATUS_CODE expression of each of the four queries.        *)
(***************************************************************************)
NotifierWfStatus(code) ==
    CASE code = 1 -> "Succeeded"
      [] code = 2 -> "Disabled"
      [] code = 3 -> "Failed"
      [] code = 4 -> "Stopped"
      [] code = 5 -> "Aborted"
      [] code = 6 -> "Running"
      [] code = 15 -> "Terminated"
      [] OTHER -> "Unknown"

NotifierSessStatus(code) ==
    CASE code = 1 -> "Succeeded"
      [] code = 2 -> "Disabled"
      [] code = 3 -> "Failed"
      [] code = 4 -> "Stopped"
      [] code = 5 -> "Aborted"
      [] code = 6 -> "Running"
      [] code = 15 -> "Terminated"
      [] OTHER -> "Unknown"

DashWfStatus(code) ==
    CASE code = 1 -> "Succeeded"
      [] code = 2 -> "Disabled"
      [] code = 3 -> "Failed"
      [] code = 4 -> "Stopped"
      [] code = 5 -> "Aborted"
      [] code = 6 -> "Running"
      [] code = 15 -> "Terminated"
      [] OTHER -> "Unknown"

\* Mutant: code 15 is missing from the table.
Mut_DashSessStatus(code) ==
    CASE code = 1 -> "Succeeded"
      [] code = 2 -> "Disabled"
      [] code = 3 -> "Failed"
      [] code = 4 -> "Stopped"
      [] code = 5 -> "Aborted"
      [] code = 6 -> "Running"
      [] OTHER -> "Unknown"

DashSessStatus(code) ==
    CASE code = 1 -> "Succeeded"
      [] code = 2 -> "Disabled"
      [] code = 3 -> "Failed"
      [] code = 4 -> "Stopped"
      [] code = 5 -> "Aborted"
      [] code = 6 -> "Running"
      [] code = 15 -> "Terminated"
      [] OTHER -> "Unknown"

(***************************************************************************)
(* Notifier fetches.  A comparison with a NULL timestamp is not true, so   *)
(* the row is not selected.                                                *)
(***************************************************************************)
NotifierWfArea ==
    <<"G", "L", "E", "N", "C", "O", "R", "E", "_", "H", "R", "_", "P", "R",
      "O", "D">>
NotifierSessArea ==
    <<"<", "m", "o", "d", "i", "f", "y", " ", "t", "h", "i", "s", ">">>
SharedArea == <<"S", "h", "a", "r", "e", "d">>
MonitoringArea ==
    <<"M", "o", "n", "i", "t", "o", "r", "i", "n", "g">>

\* x BETWEEN lo AND hi
SqlBetween(x, lo, hi) == ~IsNullDt(x) /\ DtLE(lo, x) /\ DtLE(x, hi)

\* x >= lo AND x < hi
SqlGeLt(x, lo, hi) == ~IsNullDt(x) /\ DtLE(lo, x) /\ DtLT(x, hi)

WfQueryRow(r) ==
    [SUBJECT_AREA |-> r.SUBJECT_AREA, WORKFLOW_NAME |-> r.WORKFLOW_NAME,
     WORKFLOW_RUN_ID |-> r.WORKFLOW_RUN_ID, START_TIME |-> r.START_TIME,
     Status |-> NotifierWfStatus(r.RUN_STATUS_CODE)]

wf_query(table, lo, hi) ==
    LET Where(r) == /\ r.SUBJECT_AREA = NotifierWfArea
                    /\ SqlBetween(r.START_TIME, lo, hi)
        sel == SelectSeq(table, Where)
    IN [i \in 1..Len(sel) |-> WfQueryRow(sel[i])]

SessQueryRow(r) ==
    [SUBJECT_AREA |-> r.SUBJECT_AREA, WORKFLOW_NAME |-> r.WORKFLOW_NAME,
     WORKFLOW_RUN_ID |-> r.WORKFLOW_RUN_ID, SESSION_NAME |-> r.SESSION_NAME,
     Status |-> NotifierSessStatus(r.RUN_STATUS_CODE)]

sess_query(table, lo, hi) ==
    LET Where(r) == /\ r.SUBJECT_AREA = NotifierSessArea
                    /\ SqlBetween(r.ACTUAL_START, lo, hi)
        sel == SelectSeq(table, Where)
    IN [i \in 1..Len(sel) |-> SessQueryRow(sel[i])]

JobGroups ==
    {"StgBatchGroupSAP", "BOBatchGroupAD", "StgBatchGroupAD",
     "BOBatchGroupSap", "TokenMatchMergeGrp",
     "BOBatchGroup_SRC_ID_SAPNO_FLAG_LDG_STG_BO",
     "StgBatchGroupWorkday", "BOBatchGroupWorkday"}

\* A fetched job row: row[0] GroupName, row[1] Display, row[2] Start,
\* row[4] Status, row[5] Message.
jobs_query(table, lo, hi) ==
    LET Where(r) == /\ r.GroupName \in JobGroups
                    /\ SqlGeLt(r.Start, lo, hi)
    IN SelectSeq(table, Where)

(***************************************************************************)
(* Texts: str.lower(), the `in` test on strings, str.contains.             *)
(***************************************************************************)
\* A NULL (None / NaN) text; it is no sequence of characters.
NullText == <<"<NULL>">>
IsNullText(t) == t = NullText

\* The characters of a text.  A character the parser reads in a string
\* (U+0000..U+007F but the grave accent and, below U+10000, those whose
\* code point modulo 256 is 128 or more) is written as itself, any other
\* character as "U+" and its code point in hexadecimal.
\*
\* str.lower(): the characters it changes into one character, each with
\* that character.
LowerPairs ==
    {
      <<"A", "a">>, <<"B", "b">>, <<"C", "c">>, <<"D", "d">>, <<"E", "e">>,
      <<"F", "f">>, <<"G", "g">>, <<"H", "h">>, <<"I", "i">>, <<"J", "j">>,
      <<"K", "k">>, <<"L", "l">>, <<"M", "m">>, <<"N", "n">>, <<"O", "o">>,
      <<"P", "p">>, <<"Q", "q">>, <<"R", "r">>, <<"S", "s">>, <<"T", "t">>,
      <<"U", "u">>, <<"V", "v">>, <<"W", "w">>, <<"X", "x">>, <<"Y", "y">>,
      <<"Z", "z">>, <<"À", "à">>, <<"Á", "á">>, <<"Â", "â">>, <<"Ã", "ã">>,
      <<"Ä", "ä">>, <<"Å", "å">>, <<"Æ", "æ">>, <<"Ç", "ç">>, <<"È", "è">>,
      <<"É", "é">>, <<"Ê", "ê">>, <<"Ë", "ë">>, <<"Ì", "ì">>, <<"Í", "í">>,
      <<"Î", "î">>, <<"Ï", "ï">>, <<"Ð", "ð">>, <<"Ñ", "ñ">>, <<"Ò", "ò">>,
      <<"Ó", "ó">>, <<"Ô", "ô">>, <<"Õ", "õ">>, <<"Ö", "ö">>, <<"Ø", "ø">>,
      <<"Ù", "ù">>, <<"Ú", "ú">>, <<"Û", "û">>, <<"Ü", "ü">>, <<"Ý", "ý">>,
      <<"Þ", "þ">>, <<"U+0100", "U+0101">>, <<"U+0102", "U+0103">>,
      <<"U+0104", "U+0105">>, <<"U+0106", "U+0107">>, <<"U+0108",
      "U+0109">>, <<"U+010A", "U+010B">>, <<"U+010C", "U+010D">>,
      <<"U+010E", "U+010F">>, <<"U+0110", "U+0111">>, <<"U+0112",
      "U+0113">>, <<"U+0114", "U+0115">>, <<"U+0116", "U+0117">>,
      <<"U+0118", "U+0119">>, <<"U+011A", "U+011B">>, <<"U+011C",
      "U+011D">>, <<"U+011E", "U+011F">>, <<"U+0120", "U+0121">>,
      <<"U+0122", "U+0123">>, <<"U+0124", "U+0125">>, <<"U+0126",
      "U+0127">>, <<"U+0128", "U+0129">>, <<"U+012A", "U+012B">>,
      <<"U+012C", "U+012D">>, <<"U+012E", "U+012F">>, <<"U+0132",
      "U+0133">>, <<"U+0134", "U+0135">>, <<"U+0136", "U+0137">>,
      <<"U+0139", "U+013A">>, <<"U+013B", "U+013C">>, <<"U+013D",
      "U+013E">>, <<"U+013F", "U+0140">>, <<"U+0141", "U+0142">>,
      <<"U+0143", "U+0144">>, <<"U+0145", "U+0146">>, <<"U+0147",
      "U+0148">>, <<"U+014A", "U+014B">>, <<"U+014C", "U+014D">>,
      <<"U+014E", "U+014F">>, <<"U+0150", "U+0151">>, <<"U+0152",
      "U+0153">>, <<"U+0154", "U+0155">>, <<"U+0156", "U+0157">>,
      <<"U+0158", "U+0159">>, <<"U+015A", "U+015B">>, <<"U+015C",
      "U+015D">>, <<"U+015E", "U+015F">>, <<"U+0160", "U+0161">>,
      <<"U+0162", "U+0163">>, <<"U+0164", "U+0165">>, <<"U+0166",
      "U+0167">>, <<"U+0168", "U+0169">>, <<"U+016A", "U+016B">>,
      <<"U+016C", "U+016D">>, <<"U+016E", "U+016F">>, <<"U+0170",
      "U+0171">>, <<"U+0172", "U+0173">>, <<"U+0174", "U+0175">>,
      <<"U+0176", "U+0177">>, <<"U+0178", "ÿ">>, <<"U+0179", "U+017A">>,
      <<"U+017B", "U+017C">>, <<"U+017D", "U+017E">>, <<"Ɓ", "U+0253">>,
      <<"Ƃ", "ƃ">>, <<"Ƅ", "ƅ">>, <<"Ɔ", "U+0254">>, <<"Ƈ", "ƈ">>, <<"Ɖ",
      "U+0256">>, <<"Ɗ", "U+0257">>, <<"Ƌ", "ƌ">>, <<"Ǝ", "ǝ">>, <<"Ə",
      "U+0259">>, <<"Ɛ", "U+025B">>, <<"Ƒ", "ƒ">>, <<"Ɠ", "U+0260">>, <<"Ɣ",
      "U+0263">>, <<"Ɩ", "U+0269">>, <<"Ɨ", "U+0268">>, <<"Ƙ", "ƙ">>, <<"Ɯ",
      "U+026F">>, <<"Ɲ", "U+0272">>, <<"Ɵ", "U+0275">>, <<"Ơ", "ơ">>, <<"Ƣ",
      "ƣ">>, <<"Ƥ", "ƥ">>, <<"Ʀ", "ʀ">>, <<"Ƨ", "ƨ">>, <<"Ʃ", "ʃ">>, <<"Ƭ",
      "ƭ">>, <<"Ʈ", "ʈ">>, <<"Ư", "ư">>, <<"Ʊ", "ʊ">>, <<"Ʋ", "ʋ">>, <<"Ƴ",
      "ƴ">>, <<"Ƶ", "ƶ">>, <<"Ʒ", "ʒ">>, <<"Ƹ", "ƹ">>, <<"Ƽ", "ƽ">>, <<"Ǆ",
      "ǆ">>, <<"ǅ", "ǆ">>, <<"Ǉ", "ǉ">>, <<"ǈ", "ǉ">>, <<"Ǌ", "ǌ">>, <<"ǋ",
      "ǌ">>, <<"Ǎ", "ǎ">>, <<"Ǐ", "ǐ">>, <<"Ǒ", "ǒ">>, <<"Ǔ", "ǔ">>, <<"Ǖ",
      "ǖ">>, <<"Ǘ", "ǘ">>, <<"Ǚ", "ǚ">>, <<"Ǜ", "ǜ">>, <<"Ǟ", "ǟ">>, <<"Ǡ",
      "ǡ">>, <<"Ǣ", "ǣ">>, <<"Ǥ", "ǥ">>, <<"Ǧ", "ǧ">>, <<"Ǩ", "ǩ">>, <<"Ǫ",
      "ǫ">>, <<"Ǭ", "ǭ">>, <<"Ǯ", "ǯ">>, <<"Ǳ", "ǳ">>, <<"ǲ", "ǳ">>, <<"Ǵ",
      "ǵ">>, <<"Ƕ", "ƕ">>, <<"Ƿ", "ƿ">>, <<"Ǹ", "ǹ">>, <<"Ǻ", "ǻ">>, <<"Ǽ",
      "ǽ">>, <<"Ǿ", "ǿ">>, <<"U+0200", "U+0201">>, <<"U+0202", "U+0203">>,
      <<"U+0204", "U+0205">>, <<"U+0206", "U+0207">>, <<"U+0208",
      "U+0209">>, <<"U+020A", "U+020B">>, <<"U+020C", "U+020D">>,
      <<"U+020E", "U+020F">>, <<"U+0210", "U+0211">>, <<"U+0212",
      "U+0213">>, <<"U+0214", "U+0215">>, <<"U+0216", "U+0217">>,
      <<"U+0218", "U+0219">>, <<"U+021A", "U+021B">>, <<"U+021C",
      "U+021D">>, <<"U+021E", "U+021F">>, <<"U+0220", "ƞ">>, <<"U+0222",
      "U+0223">>, <<"U+0224", "U+0225">>, <<"U+0226", "U+0227">>,
      <<"U+0228", "U+0229">>, <<"U+022A", "U+022B">>, <<"U+022C",
      "U+022D">>, <<"U+022E", "U+022F">>, <<"U+0230", "U+0231">>,
      <<"U+0232", "U+0233">>, <<"U+023A", "U+2C65">>, <<"U+023B",
      "U+023C">>, <<"U+023D", "ƚ">>, <<"U+023E", "U+2C66">>, <<"U+0241",
      "U+0242">>, <<"U+0243", "ƀ">>, <<"U+0244", "ʉ">>, <<"U+0245", "ʌ">>,
      <<"U+0246", "U+0247">>, <<"U+0248", "U+0249">>, <<"U+024A",
      "U+024B">>, <<"U+024C", "U+024D">>, <<"U+024E", "U+024F">>,
      <<"U+0370", "U+0371">>, <<"U+0372", "U+0373">>, <<"U+0376",
      "U+0377">>, <<"U+037F", "ϳ">>, <<"Ά", "ά">>, <<"Έ", "έ">>, <<"Ή",
      "ή">>, <<"Ί", "ί">>, <<"Ό", "ό">>, <<"Ύ", "ύ">>, <<"Ώ", "ώ">>, <<"Α",
      "α">>, <<"Β", "β">>, <<"Γ", "γ">>, <<"Δ", "δ">>, <<"Ε", "ε">>, <<"Ζ",
      "ζ">>, <<"Η", "η">>, <<"Θ", "θ">>, <<"Ι", "ι">>, <<"Κ", "κ">>, <<"Λ",
      "λ">>, <<"Μ", "μ">>, <<"Ν", "ν">>, <<"Ξ", "ξ">>, <<"Ο", "ο">>, <<"Π",
      "π">>, <<"Ρ", "ρ">>, <<"Σ", "σ">>, <<"Τ", "τ">>, <<"Υ", "υ">>, <<"Φ",
      "φ">>, <<"Χ", "χ">>, <<"Ψ", "ψ">>, <<"Ω", "ω">>, <<"Ϊ", "ϊ">>, <<"Ϋ",
      "ϋ">>, <<"Ϗ", "ϗ">>, <<"Ϙ", "ϙ">>, <<"Ϛ", "ϛ">>, <<"Ϝ", "ϝ">>, <<"Ϟ",
      "ϟ">>, <<"Ϡ", "ϡ">>, <<"Ϣ", "ϣ">>, <<"Ϥ", "ϥ">>, <<"Ϧ", "ϧ">>, <<"Ϩ",
      "ϩ">>, <<"Ϫ", "ϫ">>, <<"Ϭ", "ϭ">>, <<"Ϯ", "ϯ">>, <<"ϴ", "θ">>, <<"Ϸ",
      "ϸ">>, <<"Ϲ", "ϲ">>, <<"Ϻ", "ϻ">>, <<"Ͻ", "U+037B">>, <<"Ͼ",
      "U+037C">>, <<"Ͽ", "U+037D">>, <<"U+0400", "U+0450">>, <<"U+0401",
      "U+0451">>, <<"U+0402", "U+0452">>, <<"U+0403", "U+0453">>,
      <<"U+0404", "U+0454">>, <<"U+0405", "U+0455">>, <<"U+0406",
      "U+0456">>, <<"U+0407", "U+0457">>, <<"U+0408", "U+0458">>,
      <<"U+0409", "U+0459">>, <<"U+040A", "U+045A">>, <<"U+040B",
      "U+045B">>, <<"U+040C", "U+045C">>, <<"U+040D", "U+045D">>,
      <<"U+040E", "U+045E">>, <<"U+040F", "U+045F">>, <<"U+0410",
      "U+0430">>, <<"U+0411", "U+0431">>, <<"U+0412", "U+0432">>,
      <<"U+0413", "U+0433">>, <<"U+0414", "U+0434">>, <<"U+0415",
      "U+0435">>, <<"U+0416", "U+0436">>, <<"U+0417", "U+0437">>,
      <<"U+0418", "U+0438">>, <<"U+0419", "U+0439">>, <<"U+041A",
      "U+043A">>, <<"U+041B", "U+043B">>, <<"U+041C", "U+043C">>,
      <<"U+041D", "U+043D">>, <<"U+041E", "U+043E">>, <<"U+041F",
      "U+043F">>, <<"U+0420", "U+0440">>, <<"U+0421", "U+0441">>,
      <<"U+0422", "U+0442">>, <<"U+0423", "U+0443">>, <<"U+0424",
      "U+0444">>, <<"U+0425", "U+0445">>, <<"U+0426", "U+0446">>,
      <<"U+0427", "U+0447">>, <<"U+0428", "U+0448">>, <<"U+0429",
      "U+0449">>, <<"U+042A", "U+044A">>, <<"U+042B", "U+044B">>,
      <<"U+042C", "U+044C">>, <<"U+042D", "U+044D">>, <<"U+042E",
      "U+044E">>, <<"U+042F", "U+044F">>, <<"U+0460", "U+0461">>,
      <<"U+0462", "U+0463">>, <<"U+0464", "U+0465">>, <<"U+0466",
      "U+0467">>, <<"U+0468", "U+0469">>, <<"U+046A", "U+046B">>,
      <<"U+046C", "U+046D">>, <<"U+046E", "U+046F">>, <<"U+0470",
      "U+0471">>, <<"U+0472", "U+0473">>, <<"U+0474", "U+0475">>,
      <<"U+0476", "U+0477">>, <<"U+0478", "U+0479">>, <<"U+047A",
      "U+047B">>, <<"U+047C", "U+047D">>, <<"U+047E", "U+047F">>, <<"Ҁ",
      "ҁ">>, <<"Ҋ", "ҋ">>, <<"Ҍ", "ҍ">>, <<"Ҏ", "ҏ">>, <<"Ґ", "ґ">>, <<"Ғ",
      "ғ">>, <<"Ҕ", "ҕ">>, <<"Җ", "җ">>, <<"Ҙ", "ҙ">>, <<"Қ", "қ">>, <<"Ҝ",
      "ҝ">>, <<"Ҟ", "ҟ">>, <<"Ҡ", "ҡ">>, <<"Ң", "ң">>, <<"Ҥ", "ҥ">>, <<"Ҧ",
      "ҧ">>, <<"Ҩ", "ҩ">>, <<"Ҫ", "ҫ">>, <<"Ҭ", "ҭ">>, <<"Ү", "ү">>, <<"Ұ",
      "ұ">>, <<"Ҳ", "ҳ">>, <<"Ҵ", "ҵ">>, <<"Ҷ", "ҷ">>, <<"Ҹ", "ҹ">>, <<"Һ",
      "һ">>, <<"Ҽ", "ҽ">>, <<"Ҿ", "ҿ">>, <<"Ӏ", "ӏ">>, <<"Ӂ", "ӂ">>, <<"Ӄ",
      "ӄ">>, <<"Ӆ", "ӆ">>, <<"Ӈ", "ӈ">>, <<"Ӊ", "ӊ">>, <<"Ӌ", "ӌ">>, <<"Ӎ",
      "ӎ">>, <<"Ӑ", "ӑ">>, <<"Ӓ", "ӓ">>, <<"Ӕ", "ӕ">>, <<"Ӗ", "ӗ">>, <<"Ә",
      "ә">>, <<"Ӛ", "ӛ">>, <<"Ӝ", "ӝ">>, <<"Ӟ", "ӟ">>, <<"Ӡ", "ӡ">>, <<"Ӣ",
      "ӣ">>, <<"Ӥ", "ӥ">>, <<"Ӧ", "ӧ">>, <<"Ө", "ө">>, <<"Ӫ", "ӫ">>, <<"Ӭ",
      "ӭ">>, <<"Ӯ", "ӯ">>, <<"Ӱ", "ӱ">>, <<"Ӳ", "ӳ">>, <<"Ӵ", "ӵ">>, <<"Ӷ",
      "ӷ">>, <<"Ӹ", "ӹ">>, <<"Ӻ", "ӻ">>, <<"Ӽ", "ӽ">>, <<"Ӿ", "ӿ">>,
      <<"U+0500", "U+0501">>, <<"U+0502", "U+0503">>, <<"U+0504",
      "U+0505">>, <<"U+0506", "U+0507">>, <<"U+0508", "U+0509">>,
      <<"U+050A", "U+050B">>, <<"U+050C", "U+050D">>, <<"U+050E",
      "U+050F">>, <<"U+0510", "U+0511">>, <<"U+0512", "U+0513">>,
      <<"U+0514", "U+0515">>, <<"U+0516", "U+0517">>, <<"U+0518",
      "U+0519">>, <<"U+051A", "U+051B">>, <<"U+051C", "U+051D">>,
      <<"U+051E", "U+051F">>, <<"U+0520", "U+0521">>, <<"U+0522",
      "U+0523">>, <<"U+0524", "U+0525">>, <<"U+0526", "U+0527">>,
      <<"U+0528", "U+0529">>, <<"U+052A", "U+052B">>, <<"U+052C",
      "U+052D">>, <<"U+052E", "U+052F">>, <<"U+0531", "U+0561">>,
      <<"U+0532", "U+0562">>, <<"U+0533", "U+0563">>, <<"U+0534",
      "U+0564">>, <<"U+0535", "U+0565">>, <<"U+0536", "U+0566">>,
      <<"U+0537", "U+0567">>, <<"U+0538", "U+0568">>, <<"U+0539",
      "U+0569">>, <<"U+053A", "U+056A">>, <<"U+053B", "U+056B">>,
      <<"U+053C", "U+056C">>, <<"U+053D", "U+056D">>, <<"U+053E",
      "U+056E">>, <<"U+053F", "U+056F">>, <<"U+0540", "U+0570">>,
      <<"U+0541", "U+0571">>, <<"U+0542", "U+0572">>, <<"U+0543",
      "U+0573">>, <<"U+0544", "U+0574">>, <<"U+0545", "U+0575">>,
      <<"U+0546", "U+0576">>, <<"U+0547", "U+0577">>, <<"U+0548",
      "U+0578">>, <<"U+0549", "U+0579">>, <<"U+054A", "U+057A">>,
      <<"U+054B", "U+057B">>, <<"U+054C", "U+057C">>, <<"U+054D",
      "U+057D">>, <<"U+054E", "U+057E">>, <<"U+054F", "U+057F">>,
      <<"U+0550", "ր">>, <<"U+0551", "ց">>, <<"U+0552", "ւ">>, <<"U+0553",
      "փ">>, <<"U+0554", "ք">>, <<"U+0555", "օ">>, <<"U+0556", "ֆ">>, <<"Ⴀ",
      "U+2D00">>, <<"Ⴁ", "U+2D01">>, <<"Ⴂ", "U+2D02">>, <<"Ⴃ", "U+2D03">>,
      <<"Ⴄ", "U+2D04">>, <<"Ⴅ", "U+2D05">>, <<"Ⴆ", "U+2D06">>, <<"Ⴇ",
      "U+2D07">>, <<"Ⴈ", "U+2D08">>, <<"Ⴉ", "U+2D09">>, <<"Ⴊ", "U+2D0A">>,
      <<"Ⴋ", "U+2D0B">>, <<"Ⴌ", "U+2D0C">>, <<"Ⴍ", "U+2D0D">>, <<"Ⴎ",
      "U+2D0E">>, <<"Ⴏ", "U+2D0F">>, <<"Ⴐ", "U+2D10">>, <<"Ⴑ", "U+2D11">>,
      <<"Ⴒ", "U+2D12">>, <<"Ⴓ", "U+2D13">>, <<"Ⴔ", "U+2D14">>, <<"Ⴕ",
      "U+2D15">>, <<"Ⴖ", "U+2D16">>, <<"Ⴗ", "U+2D17">>, <<"Ⴘ", "U+2D18">>,
      <<"Ⴙ", "U+2D19">>, <<"Ⴚ", "U+2D1A">>, <<"Ⴛ", "U+2D1B">>, <<"Ⴜ",
      "U+2D1C">>, <<"Ⴝ", "U+2D1D">>, <<"Ⴞ", "U+2D1E">>, <<"Ⴟ", "U+2D1F">>,
      <<"Ⴠ", "U+2D20">>, <<"Ⴡ", "U+2D21">>, <<"Ⴢ", "U+2D22">>, <<"Ⴣ",
      "U+2D23">>, <<"Ⴤ", "U+2D24">>, <<"Ⴥ", "U+2D25">>, <<"Ⴧ", "U+2D27">>,
      <<"Ⴭ", "U+2D2D">>, <<"Ꭰ", "U+AB70">>, <<"Ꭱ", "U+AB71">>, <<"Ꭲ",
      "U+AB72">>, <<"Ꭳ", "U+AB73">>, <<"Ꭴ", "U+AB74">>, <<"Ꭵ", "U+AB75">>,
      <<"Ꭶ", "U+AB76">>, <<"Ꭷ", "U+AB77">>, <<"Ꭸ", "U+AB78">>, <<"Ꭹ",
      "U+AB79">>, <<"Ꭺ", "U+AB7A">>, <<"Ꭻ", "U+AB7B">>, <<"Ꭼ", "U+AB7C">>,
      <<"Ꭽ", "U+AB7D">>, <<"Ꭾ", "U+AB7E">>, <<"Ꭿ", "U+AB7F">>, <<"Ꮀ", "ꮀ">>,
      <<"Ꮁ", "ꮁ">>, <<"Ꮂ", "ꮂ">>, <<"Ꮃ", "ꮃ">>, <<"Ꮄ", "ꮄ">>, <<"Ꮅ", "ꮅ">>,
      <<"Ꮆ", "ꮆ">>, <<"Ꮇ", "ꮇ">>, <<"Ꮈ", "ꮈ">>, <<"Ꮉ", "ꮉ">>, <<"Ꮊ", "ꮊ">>,
      <<"Ꮋ", "ꮋ">>, <<"Ꮌ", "ꮌ">>, <<"Ꮍ", "ꮍ">>, <<"Ꮎ", "ꮎ">>, <<"Ꮏ", "ꮏ">>,
      <<"Ꮐ", "ꮐ">>, <<"Ꮑ", "ꮑ">>, <<"Ꮒ", "ꮒ">>, <<"Ꮓ", "ꮓ">>, <<"Ꮔ", "ꮔ">>,
      <<"Ꮕ", "ꮕ">>, <<"Ꮖ", "ꮖ">>, <<"Ꮗ", "ꮗ">>, <<"Ꮘ", "ꮘ">>, <<"Ꮙ", "ꮙ">>,
      <<"Ꮚ", "ꮚ">>, <<"Ꮛ", "ꮛ">>, <<"Ꮜ", "ꮜ">>, <<"Ꮝ", "ꮝ">>, <<"Ꮞ", "ꮞ">>,
      <<"Ꮟ", "ꮟ">>, <<"Ꮠ", "ꮠ">>, <<"Ꮡ", "ꮡ">>, <<"Ꮢ", "ꮢ">>, <<"Ꮣ", "ꮣ">>,
      <<"Ꮤ", "ꮤ">>, <<"Ꮥ", "ꮥ">>, <<"Ꮦ", "ꮦ">>, <<"Ꮧ", "ꮧ">>, <<"Ꮨ", "ꮨ">>,
      <<"Ꮩ", "ꮩ">>, <<"Ꮪ", "ꮪ">>, <<"Ꮫ", "ꮫ">>, <<"Ꮬ", "ꮬ">>, <<"Ꮭ", "ꮭ">>,
      <<"Ꮮ", "ꮮ">>, <<"Ꮯ", "ꮯ">>, <<"Ꮰ", "ꮰ">>, <<"Ꮱ", "ꮱ">>, <<"Ꮲ", "ꮲ">>,
      <<"Ꮳ", "ꮳ">>, <<"Ꮴ", "ꮴ">>, <<"Ꮵ", "ꮵ">>, <<"Ꮶ", "ꮶ">>, <<"Ꮷ", "ꮷ">>,
      <<"Ꮸ", "ꮸ">>, <<"Ꮹ", "ꮹ">>, <<"Ꮺ", "ꮺ">>, <<"Ꮻ", "ꮻ">>, <<"Ꮼ", "ꮼ">>,
      <<"Ꮽ", "ꮽ">>, <<"Ꮾ", "ꮾ">>, <<"Ꮿ", "ꮿ">>, <<"Ᏸ", "ᏸ">>, <<"Ᏹ", "ᏹ">>,
      <<"Ᏺ", "ᏺ">>, <<"Ᏻ", "ᏻ">>, <<"Ᏼ", "ᏼ">>, <<"Ᏽ", "ᏽ">>, <<"Ა", "ა">>,
      <<"Ბ", "ბ">>, <<"Გ", "გ">>, <<"Დ", "დ">>, <<"Ე", "ე">>, <<"Ვ", "ვ">>,
      <<"Ზ", "ზ">>, <<"Თ", "თ">>, <<"Ი", "ი">>, <<"Კ", "კ">>, <<"Ლ", "ლ">>,
      <<"Მ", "მ">>, <<"Ნ", "ნ">>, <<"Ო", "ო">>, <<"Პ", "პ">>, <<"Ჟ", "ჟ">>,
      <<"Რ", "რ">>, <<"Ს", "ს">>, <<"Ტ", "ტ">>, <<"Უ", "უ">>, <<"Ფ", "ფ">>,
      <<"Ქ", "ქ">>, <<"Ღ", "ღ">>, <<"Ყ", "ყ">>, <<"Შ", "შ">>, <<"Ჩ", "ჩ">>,
      <<"Ც", "ც">>, <<"Ძ", "ძ">>, <<"Წ", "წ">>, <<"Ჭ", "ჭ">>, <<"Ხ", "ხ">>,
      <<"Ჯ", "ჯ">>, <<"Ჰ", "ჰ">>, <<"Ჱ", "ჱ">>, <<"Ჲ", "ჲ">>, <<"Ჳ", "ჳ">>,
      <<"Ჴ", "ჴ">>, <<"Ჵ", "ჵ">>, <<"Ჶ", "ჶ">>, <<"Ჷ", "ჷ">>, <<"Ჸ", "ჸ">>,
      <<"Ჹ", "ჹ">>, <<"Ჺ", "ჺ">>, <<"Ჽ", "ჽ">>, <<"Ჾ", "ჾ">>, <<"Ჿ", "ჿ">>,
      <<"U+1E00", "U+1E01">>, <<"U+1E02", "U+1E03">>, <<"U+1E04",
      "U+1E05">>, <<"U+1E06", "U+1E07">>, <<"U+1E08", "U+1E09">>,
      <<"U+1E0A", "U+1E0B">>, <<"U+1E0C", "U+1E0D">>, <<"U+1E0E",
      "U+1E0F">>, <<"U+1E10", "U+1E11">>, <<"U+1E12", "U+1E13">>,
      <<"U+1E14", "U+1E15">>, <<"U+1E16", "U+1E17">>, <<"U+1E18",
      "U+1E19">>, <<"U+1E1A", "U+1E1B">>, <<"U+1E1C", "U+1E1D">>,
      <<"U+1E1E", "U+1E1F">>, <<"U+1E20", "U+1E21">>, <<"U+1E22",
      "U+1E23">>, <<"U+1E24", "U+1E25">>, <<"U+1E26", "U+1E27">>,
      <<"U+1E28", "U+1E29">>, <<"U+1E2A", "U+1E2B">>, <<"U+1E2C",
      "U+1E2D">>, <<"U+1E2E", "U+1E2F">>, <<"U+1E30", "U+1E31">>,
      <<"U+1E32", "U+1E33">>, <<"U+1E34", "U+1E35">>, <<"U+1E36",
      "U+1E37">>, <<"U+1E38", "U+1E39">>, <<"U+1E3A", "U+1E3B">>,
      <<"U+1E3C", "U+1E3D">>, <<"U+1E3E", "U+1E3F">>, <<"U+1E40",
      "U+1E41">>, <<"U+1E42", "U+1E43">>, <<"U+1E44", "U+1E45">>,
      <<"U+1E46", "U+1E47">>, <<"U+1E48", "U+1E49">>, <<"U+1E4A",
      "U+1E4B">>, <<"U+1E4C", "U+1E4D">>, <<"U+1E4E", "U+1E4F">>,
      <<"U+1E50", "U+1E51">>, <<"U+1E52", "U+1E53">>, <<"U+1E54",
      "U+1E55">>, <<"U+1E56", "U+1E57">>, <<"U+1E58", "U+1E59">>,
      <<"U+1E5A", "U+1E5B">>, <<"U+1E5C", "U+1E5D">>, <<"U+1E5E",
      "U+1E5F">>, <<"U+1E60", "U+1E61">>, <<"U+1E62", "U+1E63">>,
      <<"U+1E64", "U+1E65">>, <<"U+1E66", "U+1E67">>, <<"U+1E68",
      "U+1E69">>, <<"U+1E6A", "U+1E6B">>, <<"U+1E6C", "U+1E6D">>,
      <<"U+1E6E", "U+1E6F">>, <<"U+1E70", "U+1E71">>, <<"U+1E72",
      "U+1E73">>, <<"U+1E74", "U+1E75">>, <<"U+1E76", "U+1E77">>,
      <<"U+1E78", "U+1E79">>, <<"U+1E7A", "U+1E7B">>, <<"U+1E7C",
      "U+1E7D">>, <<"U+1E7E", "U+1E7F">>, <<"Ẁ", "ẁ">>, <<"Ẃ", "ẃ">>, <<"Ẅ",
      "ẅ">>, <<"Ẇ", "ẇ">>, <<"Ẉ", "ẉ">>, <<"Ẋ", "ẋ">>, <<"Ẍ", "ẍ">>, <<"Ẏ",
      "ẏ">>, <<"Ẑ", "ẑ">>, <<"Ẓ", "ẓ">>, <<"Ẕ", "ẕ">>, <<"ẞ", "ß">>, <<"Ạ",
      "ạ">>, <<"Ả", "ả">>, <<"Ấ", "ấ">>, <<"Ầ", "ầ">>, <<"Ẩ", "ẩ">>, <<"Ẫ",
      "ẫ">>, <<"Ậ", "ậ">>, <<"Ắ", "ắ">>, <<"Ằ", "ằ">>, <<"Ẳ", "ẳ">>, <<"Ẵ",
      "ẵ">>, <<"Ặ", "ặ">>, <<"Ẹ", "ẹ">>, <<"Ẻ", "ẻ">>, <<"Ẽ", "ẽ">>, <<"Ế",
      "ế">>, <<"Ề", "ề">>, <<"Ể", "ể">>, <<"Ễ", "ễ">>, <<"Ệ", "ệ">>, <<"Ỉ",
      "ỉ">>, <<"Ị", "ị">>, <<"Ọ", "ọ">>, <<"Ỏ", "ỏ">>, <<"Ố", "ố">>, <<"Ồ",
      "ồ">>, <<"Ổ", "ổ">>, <<"Ỗ", "ỗ">>, <<"Ộ", "ộ">>, <<"Ớ", "ớ">>, <<"Ờ",
      "ờ">>, <<"Ở", "ở">>, <<"Ỡ", "ỡ">>, <<"Ợ", "ợ">>, <<"Ụ", "ụ">>, <<"Ủ",
      "ủ">>, <<"Ứ", "ứ">>, <<"Ừ", "ừ">>, <<"Ử", "ử">>, <<"Ữ", "ữ">>, <<"Ự",
      "ự">>, <<"Ỳ", "ỳ">>, <<"Ỵ", "ỵ">>, <<"Ỷ", "ỷ">>, <<"Ỹ", "ỹ">>, <<"Ỻ",
      "ỻ">>, <<"Ỽ", "ỽ">>, <<"Ỿ", "ỿ">>, <<"U+1F08", "U+1F00">>, <<"U+1F09",
      "U+1F01">>, <<"U+1F0A", "U+1F02">>, <<"U+1F0B", "U+1F03">>,
      <<"U+1F0C", "U+1F04">>, <<"U+1F0D", "U+1F05">>, <<"U+1F0E",
      "U+1F06">>, <<"U+1F0F", "U+1F07">>, <<"U+1F18", "U+1F10">>,
      <<"U+1F19", "U+1F11">>, <<"U+1F1A", "U+1F12">>, <<"U+1F1B",
      "U+1F13">>, <<"U+1F1C", "U+1F14">>, <<"U+1F1D", "U+1F15">>,
      <<"U+1F28", "U+1F20">>, <<"U+1F29", "U+1F21">>, <<"U+1F2A",
      "U+1F22">>, <<"U+1F2B", "U+1F23">>, <<"U+1F2C", "U+1F24">>,
      <<"U+1F2D", "U+1F25">>, <<"U+1F2E", "U+1F26">>, <<"U+1F2F",
      "U+1F27">>, <<"U+1F38", "U+1F30">>, <<"U+1F39", "U+1F31">>,
      <<"U+1F3A", "U+1F32">>, <<"U+1F3B", "U+1F33">>, <<"U+1F3C",
      "U+1F34">>, <<"U+1F3D", "U+1F35">>, <<"U+1F3E", "U+1F36">>,
      <<"U+1F3F", "U+1F37">>, <<"U+1F48", "U+1F40">>, <<"U+1F49",
      "U+1F41">>, <<"U+1F4A", "U+1F42">>, <<"U+1F4B", "U+1F43">>,
      <<"U+1F4C", "U+1F44">>, <<"U+1F4D", "U+1F45">>, <<"U+1F59",
      "U+1F51">>, <<"U+1F5B", "U+1F53">>, <<"U+1F5D", "U+1F55">>,
      <<"U+1F5F", "U+1F57">>, <<"U+1F68", "U+1F60">>, <<"U+1F69",
      "U+1F61">>, <<"U+1F6A", "U+1F62">>, <<"U+1F6B", "U+1F63">>,
      <<"U+1F6C", "U+1F64">>, <<"U+1F6D", "U+1F65">>, <<"U+1F6E",
      "U+1F66">>, <<"U+1F6F", "U+1F67">>, <<"ᾈ", "ᾀ">>, <<"ᾉ", "ᾁ">>, <<"ᾊ",
      "ᾂ">>, <<"ᾋ", "ᾃ">>, <<"ᾌ", "ᾄ">>, <<"ᾍ", "ᾅ">>, <<"ᾎ", "ᾆ">>, <<"ᾏ",
      "ᾇ">>, <<"ᾘ", "ᾐ">>, <<"ᾙ", "ᾑ">>, <<"ᾚ", "ᾒ">>, <<"ᾛ", "ᾓ">>, <<"ᾜ",
      "ᾔ">>, <<"ᾝ", "ᾕ">>, <<"ᾞ", "ᾖ">>, <<"ᾟ", "ᾗ">>, <<"ᾨ", "ᾠ">>, <<"ᾩ",
      "ᾡ">>, <<"ᾪ", "ᾢ">>, <<"ᾫ", "ᾣ">>, <<"ᾬ", "ᾤ">>, <<"ᾭ", "ᾥ">>, <<"ᾮ",
      "ᾦ">>, <<"ᾯ", "ᾧ">>, <<"Ᾰ", "ᾰ">>, <<"Ᾱ", "ᾱ">>, <<"Ὰ", "U+1F70">>,
      <<"Ά", "U+1F71">>, <<"ᾼ", "ᾳ">>, <<"Ὲ", "U+1F72">>, <<"Έ", "U+1F73">>,
      <<"Ὴ", "U+1F74">>, <<"Ή", "U+1F75">>, <<"ῌ", "ῃ">>, <<"Ῐ", "ῐ">>,
      <<"Ῑ", "ῑ">>, <<"Ὶ", "U+1F76">>, <<"Ί", "U+1F77">>, <<"Ῠ", "ῠ">>,
      <<"Ῡ", "ῡ">>, <<"Ὺ", "U+1F7A">>, <<"Ύ", "U+1F7B">>, <<"Ῥ", "ῥ">>,
      <<"Ὸ", "U+1F78">>, <<"Ό", "U+1F79">>, <<"Ὼ", "U+1F7C">>, <<"Ώ",
      "U+1F7D">>, <<"ῼ", "ῳ">>, <<"U+2126", "ω">>, <<"U+212A", "k">>,
      <<"U+212B", "å">>, <<"U+2132", "U+214E">>, <<"U+2160", "U+2170">>,
      <<"U+2161", "U+2171">>, <<"U+2162", "U+2172">>, <<"U+2163",
      "U+2173">>, <<"U+2164", "U+2174">>, <<"U+2165", "U+2175">>,
      <<"U+2166", "U+2176">>, <<"U+2167", "U+2177">>, <<"U+2168",
      "U+2178">>, <<"U+2169", "U+2179">>, <<"U+216A", "U+217A">>,
      <<"U+216B", "U+217B">>, <<"U+216C", "U+217C">>, <<"U+216D",
      "U+217D">>, <<"U+216E", "U+217E">>, <<"U+216F", "U+217F">>, <<"Ↄ",
      "ↄ">>, <<"Ⓐ", "ⓐ">>, <<"Ⓑ", "ⓑ">>, <<"Ⓒ", "ⓒ">>, <<"Ⓓ", "ⓓ">>, <<"Ⓔ",
      "ⓔ">>, <<"Ⓕ", "ⓕ">>, <<"Ⓖ", "ⓖ">>, <<"Ⓗ", "ⓗ">>, <<"Ⓘ", "ⓘ">>, <<"Ⓙ",
      "ⓙ">>, <<"Ⓚ", "ⓚ">>, <<"Ⓛ", "ⓛ">>, <<"Ⓜ", "ⓜ">>, <<"Ⓝ", "ⓝ">>, <<"Ⓞ",
      "ⓞ">>, <<"Ⓟ", "ⓟ">>, <<"Ⓠ", "ⓠ">>, <<"Ⓡ", "ⓡ">>, <<"Ⓢ", "ⓢ">>, <<"Ⓣ",
      "ⓣ">>, <<"Ⓤ", "ⓤ">>, <<"Ⓥ", "ⓥ">>, <<"Ⓦ", "ⓦ">>, <<"Ⓧ", "ⓧ">>, <<"Ⓨ",
      "ⓨ">>, <<"Ⓩ", "ⓩ">>, <<"U+2C00", "U+2C30">>, <<"U+2C01", "U+2C31">>,
      <<"U+2C02", "U+2C32">>, <<"U+2C03", "U+2C33">>, <<"U+2C04",
      "U+2C34">>, <<"U+2C05", "U+2C35">>, <<"U+2C06", "U+2C36">>,
      <<"U+2C07", "U+2C37">>, <<"U+2C08", "U+2C38">>, <<"U+2C09",
      "U+2C39">>, <<"U+2C0A", "U+2C3A">>, <<"U+2C0B", "U+2C3B">>,
      <<"U+2C0C", "U+2C3C">>, <<"U+2C0D", "U+2C3D">>, <<"U+2C0E",
      "U+2C3E">>, <<"U+2C0F", "U+2C3F">>, <<"U+2C10", "U+2C40">>,
      <<"U+2C11", "U+2C41">>, <<"U+2C12", "U+2C42">>, <<"U+2C13",
      "U+2C43">>, <<"U+2C14", "U+2C44">>, <<"U+2C15", "U+2C45">>,
      <<"U+2C16", "U+2C46">>, <<"U+2C17", "U+2C47">>, <<"U+2C18",
      "U+2C48">>, <<"U+2C19", "U+2C49">>, <<"U+2C1A", "U+2C4A">>,
      <<"U+2C1B", "U+2C4B">>, <<"U+2C1C", "U+2C4C">>, <<"U+2C1D",
      "U+2C4D">>, <<"U+2C1E", "U+2C4E">>, <<"U+2C1F", "U+2C4F">>,
      <<"U+2C20", "U+2C50">>, <<"U+2C21", "U+2C51">>, <<"U+2C22",
      "U+2C52">>, <<"U+2C23", "U+2C53">>, <<"U+2C24", "U+2C54">>,
      <<"U+2C25", "U+2C55">>, <<"U+2C26", "U+2C56">>, <<"U+2C27",
      "U+2C57">>, <<"U+2C28", "U+2C58">>, <<"U+2C29", "U+2C59">>,
      <<"U+2C2A", "U+2C5A">>, <<"U+2C2B", "U+2C5B">>, <<"U+2C2C",
      "U+2C5C">>, <<"U+2C2D", "U+2C5D">>, <<"U+2C2E", "U+2C5E">>,
      <<"U+2C2F", "U+2C5F">>, <<"U+2C60", "U+2C61">>, <<"U+2C62",
      "U+026B">>, <<"U+2C63", "U+1D7D">>, <<"U+2C64", "U+027D">>,
      <<"U+2C67", "U+2C68">>, <<"U+2C69", "U+2C6A">>, <<"U+2C6B",
      "U+2C6C">>, <<"U+2C6D", "U+0251">>, <<"U+2C6E", "U+0271">>,
      <<"U+2C6F", "U+0250">>, <<"U+2C70", "U+0252">>, <<"U+2C72",
      "U+2C73">>, <<"U+2C75", "U+2C76">>, <<"U+2C7E", "U+023F">>,
      <<"U+2C7F", "U+0240">>, <<"Ⲁ", "ⲁ">>, <<"Ⲃ", "ⲃ">>, <<"Ⲅ", "ⲅ">>,
      <<"Ⲇ", "ⲇ">>, <<"Ⲉ", "ⲉ">>, <<"Ⲋ", "ⲋ">>, <<"Ⲍ", "ⲍ">>, <<"Ⲏ", "ⲏ">>,
      <<"Ⲑ", "ⲑ">>, <<"Ⲓ", "ⲓ">>, <<"Ⲕ", "ⲕ">>, <<"Ⲗ", "ⲗ">>, <<"Ⲙ", "ⲙ">>,
      <<"Ⲛ", "ⲛ">>, <<"Ⲝ", "ⲝ">>, <<"Ⲟ", "ⲟ">>, <<"Ⲡ", "ⲡ">>, <<"Ⲣ", "ⲣ">>,
      <<"Ⲥ", "ⲥ">>, <<"Ⲧ", "ⲧ">>, <<"Ⲩ", "ⲩ">>, <<"Ⲫ", "ⲫ">>, <<"Ⲭ", "ⲭ">>,
      <<"Ⲯ", "ⲯ">>, <<"Ⲱ", "ⲱ">>, <<"Ⲳ", "ⲳ">>, <<"Ⲵ", "ⲵ">>, <<"Ⲷ", "ⲷ">>,
      <<"Ⲹ", "ⲹ">>, <<"Ⲻ", "ⲻ">>, <<"Ⲽ", "ⲽ">>, <<"Ⲿ", "ⲿ">>, <<"Ⳁ", "ⳁ">>,
      <<"Ⳃ", "ⳃ">>, <<"Ⳅ", "ⳅ">>, <<"Ⳇ", "ⳇ">>, <<"Ⳉ", "ⳉ">>, <<"Ⳋ", "ⳋ">>,
      <<"Ⳍ", "ⳍ">>, <<"Ⳏ", "ⳏ">>, <<"Ⳑ", "ⳑ">>, <<"Ⳓ", "ⳓ">>, <<"Ⳕ", "ⳕ">>,
      <<"Ⳗ", "ⳗ">>, <<"Ⳙ", "ⳙ">>, <<"Ⳛ", "ⳛ">>, <<"Ⳝ", "ⳝ">>, <<"Ⳟ", "ⳟ">>,
      <<"Ⳡ", "ⳡ">>, <<"Ⳣ", "ⳣ">>, <<"Ⳬ", "ⳬ">>, <<"Ⳮ", "ⳮ">>, <<"Ⳳ", "ⳳ">>,
      <<"U+A640", "U+A641">>, <<"U+A642", "U+A643">>, <<"U+A644",
      "U+A645">>, <<"U+A646", "U+A647">>, <<"U+A648", "U+A649">>,
      <<"U+A64A", "U+A64B">>, <<"U+A64C", "U+A64D">>, <<"U+A64E",
      "U+A64F">>, <<"U+A650", "U+A651">>, <<"U+A652", "U+A653">>,
      <<"U+A654", "U+A655">>, <<"U+A656", "U+A657">>, <<"U+A658",
      "U+A659">>, <<"U+A65A", "U+A65B">>, <<"U+A65C", "U+A65D">>,
      <<"U+A65E", "U+A65F">>, <<"U+A660", "U+A661">>, <<"U+A662",
      "U+A663">>, <<"U+A664", "U+A665">>, <<"U+A666", "U+A667">>,
      <<"U+A668", "U+A669">>, <<"U+A66A", "U+A66B">>, <<"U+A66C",
      "U+A66D">>, <<"Ꚁ", "ꚁ">>, <<"Ꚃ", "ꚃ">>, <<"Ꚅ", "ꚅ">>, <<"Ꚇ", "ꚇ">>,
      <<"Ꚉ", "ꚉ">>, <<"Ꚋ", "ꚋ">>, <<"Ꚍ", "ꚍ">>, <<"Ꚏ", "ꚏ">>, <<"Ꚑ", "ꚑ">>,
      <<"Ꚓ", "ꚓ">>, <<"Ꚕ", "ꚕ">>, <<"Ꚗ", "ꚗ">>, <<"Ꚙ", "ꚙ">>, <<"Ꚛ", "ꚛ">>,
      <<"U+A722", "U+A723">>, <<"U+A724", "U+A725">>, <<"U+A726",
      "U+A727">>, <<"U+A728", "U+A729">>, <<"U+A72A", "U+A72B">>,
      <<"U+A72C", "U+A72D">>, <<"U+A72E", "U+A72F">>, <<"U+A732",
      "U+A733">>, <<"U+A734", "U+A735">>, <<"U+A736", "U+A737">>,
      <<"U+A738", "U+A739">>, <<"U+A73A", "U+A73B">>, <<"U+A73C",
      "U+A73D">>, <<"U+A73E", "U+A73F">>, <<"U+A740", "U+A741">>,
      <<"U+A742", "U+A743">>, <<"U+A744", "U+A745">>, <<"U+A746",
      "U+A747">>, <<"U+A748", "U+A749">>, <<"U+A74A", "U+A74B">>,
      <<"U+A74C", "U+A74D">>, <<"U+A74E", "U+A74F">>, <<"U+A750",
      "U+A751">>, <<"U+A752", "U+A753">>, <<"U+A754", "U+A755">>,
      <<"U+A756", "U+A757">>, <<"U+A758", "U+A759">>, <<"U+A75A",
      "U+A75B">>, <<"U+A75C", "U+A75D">>, <<"U+A75E", "U+A75F">>,
      <<"U+A760", "U+A761">>, <<"U+A762", "U+A763">>, <<"U+A764",
      "U+A765">>, <<"U+A766", "U+A767">>, <<"U+A768", "U+A769">>,
      <<"U+A76A", "U+A76B">>, <<"U+A76C", "U+A76D">>, <<"U+A76E",
      "U+A76F">>, <<"U+A779", "U+A77A">>, <<"U+A77B", "U+A77C">>,
      <<"U+A77D", "U+1D79">>, <<"U+A77E", "U+A77F">>, <<"Ꞁ", "ꞁ">>, <<"Ꞃ",
      "ꞃ">>, <<"Ꞅ", "ꞅ">>, <<"Ꞇ", "ꞇ">>, <<"Ꞌ", "ꞌ">>, <<"Ɥ", "U+0265">>,
      <<"Ꞑ", "ꞑ">>, <<"Ꞓ", "ꞓ">>, <<"Ꞗ", "ꞗ">>, <<"Ꞙ", "ꞙ">>, <<"Ꞛ", "ꞛ">>,
      <<"Ꞝ", "ꞝ">>, <<"Ꞟ", "ꞟ">>, <<"Ꞡ", "ꞡ">>, <<"Ꞣ", "ꞣ">>, <<"Ꞥ", "ꞥ">>,
      <<"Ꞧ", "ꞧ">>, <<"Ꞩ", "ꞩ">>, <<"Ɦ", "U+0266">>, <<"Ɜ", "U+025C">>,
      <<"Ɡ", "U+0261">>, <<"Ɬ", "U+026C">>, <<"Ɪ", "U+026A">>, <<"Ʞ", "ʞ">>,
      <<"Ʇ", "ʇ">>, <<"Ʝ", "ʝ">>, <<"Ꭓ", "U+AB53">>, <<"Ꞵ", "ꞵ">>, <<"Ꞷ",
      "ꞷ">>, <<"Ꞹ", "ꞹ">>, <<"Ꞻ", "ꞻ">>, <<"Ꞽ", "ꞽ">>, <<"Ꞿ", "ꞿ">>, <<"Ꟁ",
      "ꟁ">>, <<"Ꟃ", "ꟃ">>, <<"Ꞔ", "ꞔ">>, <<"Ʂ", "ʂ">>, <<"Ᶎ", "ᶎ">>, <<"Ꟈ",
      "ꟈ">>, <<"Ꟊ", "ꟊ">>, <<"Ꟑ", "ꟑ">>, <<"Ꟗ", "ꟗ">>, <<"Ꟙ", "ꟙ">>, <<"Ꟶ",
      "ꟶ">>, <<"U+FF21", "U+FF41">>, <<"U+FF22", "U+FF42">>, <<"U+FF23",
      "U+FF43">>, <<"U+FF24", "U+FF44">>, <<"U+FF25", "U+FF45">>,
      <<"U+FF26", "U+FF46">>, <<"U+FF27", "U+FF47">>, <<"U+FF28",
      "U+FF48">>, <<"U+FF29", "U+FF49">>, <<"U+FF2A", "U+FF4A">>,
      <<"U+FF2B", "U+FF4B">>, <<"U+FF2C", "U+FF4C">>, <<"U+FF2D",
      "U+FF4D">>, <<"U+FF2E", "U+FF4E">>, <<"U+FF2F", "U+FF4F">>,
      <<"U+FF30", "U+FF50">>, <<"U+FF31", "U+FF51">>, <<"U+FF32",
      "U+FF52">>, <<"U+FF33", "U+FF53">>, <<"U+FF34", "U+FF54">>,
      <<"U+FF35", "U+FF55">>, <<"U+FF36", "U+FF56">>, <<"U+FF37",
      "U+FF57">>, <<"U+FF38", "U+FF58">>, <<"U+FF39", "U+FF59">>,
      <<"U+FF3A", "U+FF5A">>, <<"U+10400", "U+10428">>, <<"U+10401",
      "U+10429">>, <<"U+10402", "U+1042A">>, <<"U+10403", "U+1042B">>,
      <<"U+10404", "U+1042C">>, <<"U+10405", "U+1042D">>, <<"U+10406",
      "U+1042E">>, <<"U+10407", "U+1042F">>, <<"U+10408", "U+10430">>,
      <<"U+10409", "U+10431">>, <<"U+1040A", "U+10432">>, <<"U+1040B",
      "U+10433">>, <<"U+1040C", "U+10434">>, <<"U+1040D", "U+10435">>,
      <<"U+1040E", "U+10436">>, <<"U+1040F", "U+10437">>, <<"U+10410",
      "U+10438">>, <<"U+10411", "U+10439">>, <<"U+10412", "U+1043A">>,
      <<"U+10413", "U+1043B">>, <<"U+10414", "U+1043C">>, <<"U+10415",
      "U+1043D">>, <<"U+10416", "U+1043E">>, <<"U+10417", "U+1043F">>,
      <<"U+10418", "U+10440">>, <<"U+10419", "U+10441">>, <<"U+1041A",
      "U+10442">>, <<"U+1041B", "U+10443">>, <<"U+1041C", "U+10444">>,
      <<"U+1041D", "U+10445">>, <<"U+1041E", "U+10446">>, <<"U+1041F",
      "U+10447">>, <<"U+10420", "U+10448">>, <<"U+10421", "U+10449">>,
      <<"U+10422", "U+1044A">>, <<"U+10423", "U+1044B">>, <<"U+10424",
      "U+1044C">>, <<"U+10425", "U+1044D">>, <<"U+10426", "U+1044E">>,
      <<"U+10427", "U+1044F">>, <<"U+104B0", "U+104D8">>, <<"U+104B1",
      "U+104D9">>, <<"U+104B2", "U+104DA">>, <<"U+104B3", "U+104DB">>,
      <<"U+104B4", "U+104DC">>, <<"U+104B5", "U+104DD">>, <<"U+104B6",
      "U+104DE">>, <<"U+104B7", "U+104DF">>, <<"U+104B8", "U+104E0">>,
      <<"U+104B9", "U+104E1">>, <<"U+104BA", "U+104E2">>, <<"U+104BB",
      "U+104E3">>, <<"U+104BC", "U+104E4">>, <<"U+104BD", "U+104E5">>,
      <<"U+104BE", "U+104E6">>, <<"U+104BF", "U+104E7">>, <<"U+104C0",
      "U+104E8">>, <<"U+104C1", "U+104E9">>, <<"U+104C2", "U+104EA">>,
      <<"U+104C3", "U+104EB">>, <<"U+104C4", "U+104EC">>, <<"U+104C5",
      "U+104ED">>, <<"U+104C6", "U+104EE">>, <<"U+104C7", "U+104EF">>,
      <<"U+104C8", "U+104F0">>, <<"U+104C9", "U+104F1">>, <<"U+104CA",
      "U+104F2">>, <<"U+104CB", "U+104F3">>, <<"U+104CC", "U+104F4">>,
      <<"U+104CD", "U+104F5">>, <<"U+104CE", "U+104F6">>, <<"U+104CF",
      "U+104F7">>, <<"U+104D0", "U+104F8">>, <<"U+104D1", "U+104F9">>,
      <<"U+104D2", "U+104FA">>, <<"U+104D3", "U+104FB">>, <<"U+10570",
      "U+10597">>, <<"U+10571", "U+10598">>, <<"U+10572", "U+10599">>,
      <<"U+10573", "U+1059A">>, <<"U+10574", "U+1059B">>, <<"U+10575",
      "U+1059C">>, <<"U+10576", "U+1059D">>, <<"U+10577", "U+1059E">>,
      <<"U+10578", "U+1059F">>, <<"U+10579", "U+105A0">>, <<"U+1057A",
      "U+105A1">>, <<"U+1057C", "U+105A3">>, <<"U+1057D", "U+105A4">>,
      <<"U+1057E", "U+105A5">>, <<"U+1057F", "U+105A6">>, <<"U+10580",
      "U+105A7">>, <<"U+10581", "U+105A8">>, <<"U+10582", "U+105A9">>,
      <<"U+10583", "U+105AA">>, <<"U+10584", "U+105AB">>, <<"U+10585",
      "U+105AC">>, <<"U+10586", "U+105AD">>, <<"U+10587", "U+105AE">>,
      <<"U+10588", "U+105AF">>, <<"U+10589", "U+105B0">>, <<"U+1058A",
      "U+105B1">>, <<"U+1058C", "U+105B3">>, <<"U+1058D", "U+105B4">>,
      <<"U+1058E", "U+105B5">>, <<"U+1058F", "U+105B6">>, <<"U+10590",
      "U+105B7">>, <<"U+10591", "U+105B8">>, <<"U+10592", "U+105B9">>,
      <<"U+10594", "U+105BB">>, <<"U+10595", "U+105BC">>, <<"U+10C80",
      "U+10CC0">>, <<"U+10C81", "U+10CC1">>, <<"U+10C82", "U+10CC2">>,
      <<"U+10C83", "U+10CC3">>, <<"U+10C84", "U+10CC4">>, <<"U+10C85",
      "U+10CC5">>, <<"U+10C86", "U+10CC6">>, <<"U+10C87", "U+10CC7">>,
      <<"U+10C88", "U+10CC8">>, <<"U+10C89", "U+10CC9">>, <<"U+10C8A",
      "U+10CCA">>, <<"U+10C8B", "U+10CCB">>, <<"U+10C8C", "U+10CCC">>,
      <<"U+10C8D", "U+10CCD">>, <<"U+10C8E", "U+10CCE">>, <<"U+10C8F",
      "U+10CCF">>, <<"U+10C90", "U+10CD0">>, <<"U+10C91", "U+10CD1">>,
      <<"U+10C92", "U+10CD2">>, <<"U+10C93", "U+10CD3">>, <<"U+10C94",
      "U+10CD4">>, <<"U+10C95", "U+10CD5">>, <<"U+10C96", "U+10CD6">>,
      <<"U+10C97", "U+10CD7">>, <<"U+10C98", "U+10CD8">>, <<"U+10C99",
      "U+10CD9">>, <<"U+10C9A", "U+10CDA">>, <<"U+10C9B", "U+10CDB">>,
      <<"U+10C9C", "U+10CDC">>, <<"U+10C9D", "U+10CDD">>, <<"U+10C9E",
      "U+10CDE">>, <<"U+10C9F", "U+10CDF">>, <<"U+10CA0", "U+10CE0">>,
      <<"U+10CA1", "U+10CE1">>, <<"U+10CA2", "U+10CE2">>, <<"U+10CA3",
      "U+10CE3">>, <<"U+10CA4", "U+10CE4">>, <<"U+10CA5", "U+10CE5">>,
      <<"U+10CA6", "U+10CE6">>, <<"U+10CA7", "U+10CE7">>, <<"U+10CA8",
      "U+10CE8">>, <<"U+10CA9", "U+10CE9">>, <<"U+10CAA", "U+10CEA">>,
      <<"U+10CAB", "U+10CEB">>, <<"U+10CAC", "U+10CEC">>, <<"U+10CAD",
      "U+10CED">>, <<"U+10CAE", "U+10CEE">>, <<"U+10CAF", "U+10CEF">>,
      <<"U+10CB0", "U+10CF0">>, <<"U+10CB1", "U+10CF1">>, <<"U+10CB2",
      "U+10CF2">>, <<"U+118A0", "U+118C0">>, <<"U+118A1", "U+118C1">>,
      <<"U+118A2", "U+118C2">>, <<"U+118A3", "U+118C3">>, <<"U+118A4",
      "U+118C4">>, <<"U+118A5", "U+118C5">>, <<"U+118A6", "U+118C6">>,
      <<"U+118A7", "U+118C7">>, <<"U+118A8", "U+118C8">>, <<"U+118A9",
      "U+118C9">>, <<"U+118AA", "U+118CA">>, <<"U+118AB", "U+118CB">>,
      <<"U+118AC", "U+118CC">>, <<"U+118AD", "U+118CD">>, <<"U+118AE",
      "U+118CE">>, <<"U+118AF", "U+118CF">>, <<"U+118B0", "U+118D0">>,
      <<"U+118B1", "U+118D1">>, <<"U+118B2", "U+118D2">>, <<"U+118B3",
      "U+118D3">>, <<"U+118B4", "U+118D4">>, <<"U+118B5", "U+118D5">>,
      <<"U+118B6", "U+118D6">>, <<"U+118B7", "U+118D7">>, <<"U+118B8",
      "U+118D8">>, <<"U+118B9", "U+118D9">>, <<"U+118BA", "U+118DA">>,
      <<"U+118BB", "U+118DB">>, <<"U+118BC", "U+118DC">>, <<"U+118BD",
      "U+118DD">>, <<"U+118BE", "U+118DE">>, <<"U+118BF", "U+118DF">>,
      <<"U+16E40", "U+16E60">>, <<"U+16E41", "U+16E61">>, <<"U+16E42",
      "U+16E62">>, <<"U+16E43", "U+16E63">>, <<"U+16E44", "U+16E64">>,
      <<"U+16E45", "U+16E65">>, <<"U+16E46", "U+16E66">>, <<"U+16E47",
      "U+16E67">>, <<"U+16E48", "U+16E68">>, <<"U+16E49", "U+16E69">>,
      <<"U+16E4A", "U+16E6A">>, <<"U+16E4B", "U+16E6B">>, <<"U+16E4C",
      "U+16E6C">>, <<"U+16E4D", "U+16E6D">>, <<"U+16E4E", "U+16E6E">>,
      <<"U+16E4F", "U+16E6F">>, <<"U+16E50", "U+16E70">>, <<"U+16E51",
      "U+16E71">>, <<"U+16E52", "U+16E72">>, <<"U+16E53", "U+16E73">>,
      <<"U+16E54", "U+16E74">>, <<"U+16E55", "U+16E75">>, <<"U+16E56",
      "U+16E76">>, <<"U+16E57", "U+16E77">>, <<"U+16E58", "U+16E78">>,
      <<"U+16E59", "U+16E79">>, <<"U+16E5A", "U+16E7A">>, <<"U+16E5B",
      "U+16E7B">>, <<"U+16E5C", "U+16E7C">>, <<"U+16E5D", "U+16E7D">>,
      <<"U+16E5E", "U+16E7E">>, <<"U+16E5F", "U+16E7F">>, <<"U+1E900",
      "U+1E922">>, <<"U+1E901", "U+1E923">>, <<"U+1E902", "U+1E924">>,
      <<"U+1E903", "U+1E925">>, <<"U+1E904", "U+1E926">>, <<"U+1E905",
      "U+1E927">>, <<"U+1E906", "U+1E928">>, <<"U+1E907", "U+1E929">>,
      <<"U+1E908", "U+1E92A">>, <<"U+1E909", "U+1E92B">>, <<"U+1E90A",
      "U+1E92C">>, <<"U+1E90B", "U+1E92D">>, <<"U+1E90C", "U+1E92E">>,
      <<"U+1E90D", "U+1E92F">>, <<"U+1E90E", "U+1E930">>, <<"U+1E90F",
      "U+1E931">>, <<"U+1E910", "U+1E932">>, <<"U+1E911", "U+1E933">>,
      <<"U+1E912", "U+1E934">>, <<"U+1E913", "U+1E935">>, <<"U+1E914",
      "U+1E936">>, <<"U+1E915", "U+1E937">>, <<"U+1E916", "U+1E938">>,
      <<"U+1E917", "U+1E939">>, <<"U+1E918", "U+1E93A">>, <<"U+1E919",
      "U+1E93B">>, <<"U+1E91A", "U+1E93C">>, <<"U+1E91B", "U+1E93D">>,
      <<"U+1E91C", "U+1E93E">>, <<"U+1E91D", "U+1E93F">>, <<"U+1E91E",
      "U+1E940">>, <<"U+1E91F", "U+1E941">>, <<"U+1E920", "U+1E942">>,
      <<"U+1E921", "U+1E943">>
    }

LowerDomain == {p[1] : p \in LowerPairs}
LowerMap ==
    [c \in LowerDomain |-> (CHOOSE p \in LowerPairs : p[1] = c)[2]]

\* c.lower() of one character; U+0130, which becomes two characters, is
\* lower-cased by Lower.
LowerChar(c) == IF c \in LowerDomain THEN LowerMap[c] ELSE c

\* The cased characters that are not case-ignorable, and the
\* case-ignorable characters, which str.lower() looks at around a capital
\* sigma.
CasedLetters ==
    {
      "A", "B", "C", "D", "E", "F", "G", "H", "I", "J", "K", "L", "M", "N",
      "O", "P", "Q", "R", "S", "T", "U", "V", "W", "X", "Y", "Z", "a", "b",
      "c", "d", "e", "f", "g", "h", "i", "j", "k", "l", "m", "n", "o", "p",
      "q", "r", "s", "t", "u", "v", "w", "x", "y", "z", "ª", "µ", "º", "À",
      "Á", "Â", "Ã", "Ä", "Å", "Æ", "Ç", "È", "É", "Ê", "Ë", "Ì", "Í", "Î",
      "Ï", "Ð", "Ñ", "Ò", "Ó", "Ô", "Õ", "Ö", "Ø", "Ù", "Ú", "Û", "Ü", "Ý",
      "Þ", "ß", "à", "á", "â", "ã", "ä", "å", "æ", "ç", "è", "é", "ê", "ë",
      "ì", "í", "î", "ï", "ð", "ñ", "ò", "ó", "ô", "õ", "ö", "ø", "ù", "ú",
      "û", "ü", "ý", "þ", "ÿ", "U+0100", "U+0101", "U+0102", "U+0103",
      "U+0104", "U+0105", "U+0106", "U+0107", "U+0108", "U+0109", "U+010A",
      "U+010B", "U+010C", "U+010D", "U+010E", "U+010F", "U+0110", "U+0111",
      "U+0112", "U+0113", "U+0114", "U+0115", "U+0116", "U+0117", "U+0118",
      "U+0119", "U+011A", "U+011B", "U+011C", "U+011D", "U+011E", "U+011F",
      "U+0120", "U+0121", "U+0122", "U+0123", "U+0124", "U+0125", "U+0126",
      "U+0127", "U+0128", "U+0129", "U+012A", "U+012B", "U+012C", "U+012D",
      "U+012E", "U+012F", "U+0130", "U+0131", "U+0132", "U+0133", "U+0134",
      "U+0135", "U+0136", "U+0137", "U+0138", "U+0139", "U+013A", "U+013B",
      "U+013C", "U+013D", "U+013E", "U+013F", "U+0140", "U+0141", "U+0142",
      "U+0143", "U+0144", "U+0145", "U+0146", "U+0147", "U+0148", "U+0149",
      "U+014A", "U+014B", "U+014C", "U+014D", "U+014E", "U+014F", "U+0150",
      "U+0151", "U+0152", "U+0153", "U+0154", "U+0155", "U+0156", "U+0157",
      "U+0158", "U+0159", "U+015A", "U+015B", "U+015C", "U+015D", "U+015E",
      "U+015F", "U+0160", "U+0161", "U+0162", "U+0163", "U+0164", "U+0165",
      "U+0166", "U+0167", "U+0168", "U+0169", "U+016A", "U+016B", "U+016C",
      "U+016D", "U+016E", "U+016F", "U+0170", "U+0171", "U+0172", "U+0173",
      "U+0174", "U+0175", "U+0176", "U+0177", "U+0178", "U+0179", "U+017A",
      "U+017B", "U+017C", "U+017D", "U+017E", "U+017F", "ƀ", "Ɓ", "Ƃ", "ƃ",
      "Ƅ", "ƅ", "Ɔ", "Ƈ", "ƈ", "Ɖ", "Ɗ", "Ƌ", "ƌ", "ƍ", "Ǝ", "Ə", "Ɛ", "Ƒ",
      "ƒ", "Ɠ", "Ɣ", "ƕ", "Ɩ", "Ɨ", "Ƙ", "ƙ", "ƚ", "ƛ", "Ɯ", "Ɲ", "ƞ", "Ɵ",
      "Ơ", "ơ", "Ƣ", "ƣ", "Ƥ", "ƥ", "Ʀ", "Ƨ", "ƨ", "Ʃ", "ƪ", "ƫ", "Ƭ", "ƭ",
      "Ʈ", "Ư", "ư", "Ʊ", "Ʋ", "Ƴ", "ƴ", "Ƶ", "ƶ", "Ʒ", "Ƹ", "ƹ", "ƺ", "Ƽ",
      "ƽ", "ƾ", "ƿ", "Ǆ", "ǅ", "ǆ", "Ǉ", "ǈ", "ǉ", "Ǌ", "ǋ", "ǌ", "Ǎ", "ǎ",
      "Ǐ", "ǐ", "Ǒ", "ǒ", "Ǔ", "ǔ", "Ǖ", "ǖ", "Ǘ", "ǘ", "Ǚ", "ǚ", "Ǜ", "ǜ",
      "ǝ", "Ǟ", "ǟ", "Ǡ", "ǡ", "Ǣ", "ǣ", "Ǥ", "ǥ", "Ǧ", "ǧ", "Ǩ", "ǩ", "Ǫ",
      "ǫ", "Ǭ", "ǭ", "Ǯ", "ǯ", "ǰ", "Ǳ", "ǲ", "ǳ", "Ǵ", "ǵ", "Ƕ", "Ƿ", "Ǹ",
      "ǹ", "Ǻ", "ǻ", "Ǽ", "ǽ", "Ǿ", "ǿ", "U+0200", "U+0201", "U+0202",
      "U+0203", "U+0204", "U+0205", "U+0206", "U+0207", "U+0208", "U+0209",
      "U+020A", "U+020B", "U+020C", "U+020D", "U+020E", "U+020F", "U+0210",
      "U+0211", "U+0212", "U+0213", "U+0214", "U+0215", "U+0216", "U+0217",
      "U+0218", "U+0219", "U+021A", "U+021B", "U+021C", "U+021D", "U+021E",
      "U+021F", "U+0220", "U+0221", "U+0222", "U+0223", "U+0224", "U+0225",
      "U+0226", "U+0227", "U+0228", "U+0229", "U+022A", "U+022B", "U+022C",
      "U+022D", "U+022E", "U+022F", "U+0230", "U+0231", "U+0232", "U+0233",
      "U+0234", "U+0235", "U+0236", "U+0237", "U+0238", "U+0239", "U+023A",
      "U+023B", "U+023C", "U+023D", "U+023E", "U+023F", "U+0240", "U+0241",
      "U+0242", "U+0243", "U+0244", "U+0245", "U+0246", "U+0247", "U+0248",
      "U+0249", "U+024A", "U+024B", "U+024C", "U+024D", "U+024E", "U+024F",
      "U+0250", "U+0251", "U+0252", "U+0253", "U+0254", "U+0255", "U+0256",
      "U+0257", "U+0258", "U+0259", "U+025A", "U+025B", "U+025C", "U+025D",
      "U+025E", "U+025F", "U+0260", "U+0261", "U+0262", "U+0263", "U+0264",
      "U+0265", "U+0266", "U+0267", "U+0268", "U+0269", "U+026A", "U+026B",
      "U+026C", "U+026D", "U+026E", "U+026F", "U+0270", "U+0271", "U+0272",
      "U+0273", "U+0274", "U+0275", "U+0276", "U+0277", "U+0278", "U+0279",
      "U+027A", "U+027B", "U+027C", "U+027D", "U+027E", "U+027F", "ʀ", "ʁ",
      "ʂ", "ʃ", "ʄ", "ʅ", "ʆ", "ʇ", "ʈ", "ʉ", "ʊ", "ʋ", "ʌ", "ʍ", "ʎ", "ʏ",
      "ʐ", "ʑ", "ʒ", "ʓ", "ʕ", "ʖ", "ʗ", "ʘ", "ʙ", "ʚ", "ʛ", "ʜ", "ʝ", "ʞ",
      "ʟ", "ʠ", "ʡ", "ʢ", "ʣ", "ʤ", "ʥ", "ʦ", "ʧ", "ʨ", "ʩ", "ʪ", "ʫ", "ʬ",
      "ʭ", "ʮ", "ʯ", "U+0370", "U+0371", "U+0372", "U+0373", "U+0376",
      "U+0377", "U+037B", "U+037C", "U+037D", "U+037F", "Ά", "Έ", "Ή", "Ί",
      "Ό", "Ύ", "Ώ", "ΐ", "Α", "Β", "Γ", "Δ", "Ε", "Ζ", "Η", "Θ", "Ι", "Κ",
      "Λ", "Μ", "Ν", "Ξ", "Ο", "Π", "Ρ", "Σ", "Τ", "Υ", "Φ", "Χ", "Ψ", "Ω",
      "Ϊ", "Ϋ", "ά", "έ", "ή", "ί", "ΰ", "α", "β", "γ", "δ", "ε", "ζ", "η",
      "θ", "ι", "κ", "λ", "μ", "ν", "ξ", "ο", "π", "ρ", "ς", "σ", "τ", "υ",
      "φ", "χ", "ψ", "ω", "ϊ", "ϋ", "ό", "ύ", "ώ", "Ϗ", "ϐ", "ϑ", "ϒ", "ϓ",
      "ϔ", "ϕ", "ϖ", "ϗ", "Ϙ", "ϙ", "Ϛ", "ϛ", "Ϝ", "ϝ", "Ϟ", "ϟ", "Ϡ", "ϡ",
      "Ϣ", "ϣ", "Ϥ", "ϥ", "Ϧ", "ϧ", "Ϩ", "ϩ", "Ϫ", "ϫ", "Ϭ", "ϭ", "Ϯ", "ϯ",
      "ϰ", "ϱ", "ϲ", "ϳ", "ϴ", "ϵ", "Ϸ", "ϸ", "Ϲ", "Ϻ", "ϻ", "ϼ", "Ͻ", "Ͼ",
      "Ͽ", "U+0400", "U+0401", "U+0402", "U+0403", "U+0404", "U+0405",
      "U+0406", "U+0407", "U+0408", "U+0409", "U+040A", "U+040B", "U+040C",
      "U+040D", "U+040E", "U+040F", "U+0410", "U+0411", "U+0412", "U+0413",
      "U+0414", "U+0415", "U+0416", "U+0417", "U+0418", "U+0419", "U+041A",
      "U+041B", "U+041C", "U+041D", "U+041E", "U+041F", "U+0420", "U+0421",
      "U+0422", "U+0423", "U+0424", "U+0425", "U+0426", "U+0427", "U+0428",
      "U+0429", "U+042A", "U+042B", "U+042C", "U+042D", "U+042E", "U+042F",
      "U+0430", "U+0431", "U+0432", "U+0433", "U+0434", "U+0435", "U+0436",
      "U+0437", "U+0438", "U+0439", "U+043A", "U+043B", "U+043C", "U+043D",
      "U+043E", "U+043F", "U+0440", "U+0441", "U+0442", "U+0443", "U+0444",
      "U+0445", "U+0446", "U+0447", "U+0448", "U+0449", "U+044A", "U+044B",
      "U+044C", "U+044D", "U+044E", "U+044F", "U+0450", "U+0451", "U+0452",
      "U+0453", "U+0454", "U+0455", "U+0456", "U+0457", "U+0458", "U+0459",
      "U+045A", "U+045B", "U+045C", "U+045D", "U+045E", "U+045F", "U+0460",
      "U+0461", "U+0462", "U+0463", "U+0464", "U+0465", "U+0466", "U+0467",
      "U+0468", "U+0469", "U+046A", "U+046B", "U+046C", "U+046D", "U+046E",
      "U+046F", "U+0470", "U+0471", "U+0472", "U+0473", "U+0474", "U+0475",
      "U+0476", "U+0477", "U+0478", "U+0479", "U+047A", "U+047B", "U+047C",
      "U+047D", "U+047E", "U+047F", "Ҁ", "ҁ", "Ҋ", "ҋ", "Ҍ", "ҍ", "Ҏ", "ҏ",
      "Ґ", "ґ", "Ғ", "ғ", "Ҕ", "ҕ", "Җ", "җ", "Ҙ", "ҙ", "Қ", "қ", "Ҝ", "ҝ",
      "Ҟ", "ҟ", "Ҡ", "ҡ", "Ң", "ң", "Ҥ", "ҥ", "Ҧ", "ҧ", "Ҩ", "ҩ", "Ҫ", "ҫ",
      "Ҭ", "ҭ", "Ү", "ү", "Ұ", "ұ", "Ҳ", "ҳ", "Ҵ", "ҵ", "Ҷ", "ҷ", "Ҹ", "ҹ",
      "Һ", "һ", "Ҽ", "ҽ", "Ҿ", "ҿ", "Ӏ", "Ӂ", "ӂ", "Ӄ", "ӄ", "Ӆ", "ӆ", "Ӈ",
      "ӈ", "Ӊ", "ӊ", "Ӌ", "ӌ", "Ӎ", "ӎ", "ӏ", "Ӑ", "ӑ", "Ӓ", "ӓ", "Ӕ", "ӕ",
      "Ӗ", "ӗ", "Ә", "ә", "Ӛ", "ӛ", "Ӝ", "ӝ", "Ӟ", "ӟ", "Ӡ", "ӡ", "Ӣ", "ӣ",
      "Ӥ", "ӥ", "Ӧ", "ӧ", "Ө", "ө", "Ӫ", "ӫ", "Ӭ", "ӭ", "Ӯ", "ӯ", "Ӱ", "ӱ",
      "Ӳ", "ӳ", "Ӵ", "ӵ", "Ӷ", "ӷ", "Ӹ", "ӹ", "Ӻ", "ӻ", "Ӽ", "ӽ", "Ӿ", "ӿ",
      "U+0500", "U+0501", "U+0502", "U+0503", "U+0504", "U+0505", "U+0506",
      "U+0507", "U+0508", "U+0509", "U+050A", "U+050B", "U+050C", "U+050D",
      "U+050E", "U+050F", "U+0510", "U+0511", "U+0512", "U+0513", "U+0514",
      "U+0515", "U+0516", "U+0517", "U+0518", "U+0519", "U+051A", "U+051B",
      "U+051C", "U+051D", "U+051E", "U+051F", "U+0520", "U+0521", "U+0522",
      "U+0523", "U+0524", "U+0525", "U+0526", "U+0527", "U+0528", "U+0529",
      "U+052A", "U+052B", "U+052C", "U+052D", "U+052E", "U+052F", "U+0531",
      "U+0532", "U+0533", "U+0534", "U+0535", "U+0536", "U+0537", "U+0538",
      "U+0539", "U+053A", "U+053B", "U+053C", "U+053D", "U+053E", "U+053F",
      "U+0540", "U+0541", "U+0542", "U+0543", "U+0544", "U+0545", "U+0546",
      "U+0547", "U+0548", "U+0549", "U+054A", "U+054B", "U+054C", "U+054D",
      "U+054E", "U+054F", "U+0550", "U+0551", "U+0552", "U+0553", "U+0554",
      "U+0555", "U+0556", "U+0560", "U+0561", "U+0562", "U+0563", "U+0564",
      "U+0565", "U+0566", "U+0567", "U+0568", "U+0569", "U+056A", "U+056B",
      "U+056C", "U+056D", "U+056E", "U+056F", "U+0570", "U+0571", "U+0572",
      "U+0573", "U+0574", "U+0575", "U+0576", "U+0577", "U+0578", "U+0579",
      "U+057A", "U+057B", "U+057C", "U+057D", "U+057E", "U+057F", "ր", "ց",
      "ւ", "փ", "ք", "օ", "ֆ", "և", "ֈ", "Ⴀ", "Ⴁ", "Ⴂ", "Ⴃ", "Ⴄ", "Ⴅ", "Ⴆ",
      "Ⴇ", "Ⴈ", "Ⴉ", "Ⴊ", "Ⴋ", "Ⴌ", "Ⴍ", "Ⴎ", "Ⴏ", "Ⴐ", "Ⴑ", "Ⴒ", "Ⴓ", "Ⴔ",
      "Ⴕ", "Ⴖ", "Ⴗ", "Ⴘ", "Ⴙ", "Ⴚ", "Ⴛ", "Ⴜ", "Ⴝ", "Ⴞ", "Ⴟ", "Ⴠ", "Ⴡ", "Ⴢ",
      "Ⴣ", "Ⴤ", "Ⴥ", "Ⴧ", "Ⴭ", "ა", "ბ", "გ", "დ", "ე", "ვ", "ზ", "თ", "ი",
      "კ", "ლ", "მ", "ნ", "ო", "პ", "ჟ", "რ", "ს", "ტ", "უ", "ფ", "ქ", "ღ",
      "ყ", "შ", "ჩ", "ც", "ძ", "წ", "ჭ", "ხ", "ჯ", "ჰ", "ჱ", "ჲ", "ჳ", "ჴ",
      "ჵ", "ჶ", "ჷ", "ჸ", "ჹ", "ჺ", "ჽ", "ჾ", "ჿ", "Ꭰ", "Ꭱ", "Ꭲ", "Ꭳ", "Ꭴ",
      "Ꭵ", "Ꭶ", "Ꭷ", "Ꭸ", "Ꭹ", "Ꭺ", "Ꭻ", "Ꭼ", "Ꭽ", "Ꭾ", "Ꭿ", "Ꮀ", "Ꮁ", "Ꮂ",
      "Ꮃ", "Ꮄ", "Ꮅ", "Ꮆ", "Ꮇ", "Ꮈ", "Ꮉ", "Ꮊ", "Ꮋ", "Ꮌ", "Ꮍ", "Ꮎ", "Ꮏ", "Ꮐ",
      "Ꮑ", "Ꮒ", "Ꮓ", "Ꮔ", "Ꮕ", "Ꮖ", "Ꮗ", "Ꮘ", "Ꮙ", "Ꮚ", "Ꮛ", "Ꮜ", "Ꮝ", "Ꮞ",
      "Ꮟ", "Ꮠ", "Ꮡ", "Ꮢ", "Ꮣ", "Ꮤ", "Ꮥ", "Ꮦ", "Ꮧ", "Ꮨ", "Ꮩ", "Ꮪ", "Ꮫ", "Ꮬ",
      "Ꮭ", "Ꮮ", "Ꮯ", "Ꮰ", "Ꮱ", "Ꮲ", "Ꮳ", "Ꮴ", "Ꮵ", "Ꮶ", "Ꮷ", "Ꮸ", "Ꮹ", "Ꮺ",
      "Ꮻ", "Ꮼ", "Ꮽ", "Ꮾ", "Ꮿ", "Ᏸ", "Ᏹ", "Ᏺ", "Ᏻ", "Ᏼ", "Ᏽ", "ᏸ", "ᏹ", "ᏺ",
      "ᏻ", "ᏼ", "ᏽ", "ᲀ", "ᲁ", "ᲂ", "ᲃ", "ᲄ", "ᲅ", "ᲆ", "ᲇ", "ᲈ", "Ა", "Ბ",
      "Გ", "Დ", "Ე", "Ვ", "Ზ", "Თ", "Ი", "Კ", "Ლ", "Მ", "Ნ", "Ო", "Პ", "Ჟ",
      "Რ", "Ს", "Ტ", "Უ", "Ფ", "Ქ", "Ღ", "Ყ", "Შ", "Ჩ", "Ც", "Ძ", "Წ", "Ჭ",
      "Ხ", "Ჯ", "Ჰ", "Ჱ", "Ჲ", "Ჳ", "Ჴ", "Ჵ", "Ჶ", "Ჷ", "Ჸ", "Ჹ", "Ჺ", "Ჽ",
      "Ჾ", "Ჿ", "U+1D00", "U+1D01", "U+1D02", "U+1D03", "U+1D04", "U+1D05",
      "U+1D06", "U+1D07", "U+1D08", "U+1D09", "U+1D0A", "U+1D0B", "U+1D0C",
      "U+1D0D", "U+1D0E", "U+1D0F", "U+1D10", "U+1D11", "U+1D12", "U+1D13",
      "U+1D14", "U+1D15", "U+1D16", "U+1D17", "U+1D18", "U+1D19", "U+1D1A",
      "U+1D1B", "U+1D1C", "U+1D1D", "U+1D1E", "U+1D1F", "U+1D20", "U+1D21",
      "U+1D22", "U+1D23", "U+1D24", "U+1D25", "U+1D26", "U+1D27", "U+1D28",
      "U+1D29", "U+1D2A", "U+1D2B", "U+1D6B", "U+1D6C", "U+1D6D", "U+1D6E",
      "U+1D6F", "U+1D70", "U+1D71", "U+1D72", "U+1D73", "U+1D74", "U+1D75",
      "U+1D76", "U+1D77", "U+1D79", "U+1D7A", "U+1D7B", "U+1D7C", "U+1D7D",
      "U+1D7E", "U+1D7F", "ᶀ", "ᶁ", "ᶂ", "ᶃ", "ᶄ", "ᶅ", "ᶆ", "ᶇ", "ᶈ", "ᶉ",
      "ᶊ", "ᶋ", "ᶌ", "ᶍ", "ᶎ", "ᶏ", "ᶐ", "ᶑ", "ᶒ", "ᶓ", "ᶔ", "ᶕ", "ᶖ", "ᶗ",
      "ᶘ", "ᶙ", "ᶚ", "U+1E00", "U+1E01", "U+1E02", "U+1E03", "U+1E04",
      "U+1E05", "U+1E06", "U+1E07", "U+1E08", "U+1E09", "U+1E0A", "U+1E0B",
      "U+1E0C", "U+1E0D", "U+1E0E", "U+1E0F", "U+1E10", "U+1E11", "U+1E12",
      "U+1E13", "U+1E14", "U+1E15", "U+1E16", "U+1E17", "U+1E18", "U+1E19",
      "U+1E1A", "U+1E1B", "U+1E1C", "U+1E1D", "U+1E1E", "U+1E1F", "U+1E20",
      "U+1E21", "U+1E22", "U+1E23", "U+1E24", "U+1E25", "U+1E26", "U+1E27",
      "U+1E28", "U+1E29", "U+1E2A", "U+1E2B", "U+1E2C", "U+1E2D", "U+1E2E",
      "U+1E2F", "U+1E30", "U+1E31", "U+1E32", "U+1E33", "U+1E34", "U+1E35",
      "U+1E36", "U+1E37", "U+1E38", "U+1E39", "U+1E3A", "U+1E3B", "U+1E3C",
      "U+1E3D", "U+1E3E", "U+1E3F", "U+1E40", "U+1E41", "U+1E42", "U+1E43",
      "U+1E44", "U+1E45", "U+1E46", "U+1E47", "U+1E48", "U+1E49", "U+1E4A",
      "U+1E4B", "U+1E4C", "U+1E4D", "U+1E4E", "U+1E4F", "U+1E50", "U+1E51",
      "U+1E52", "U+1E53", "U+1E54", "U+1E55", "U+1E56", "U+1E57", "U+1E58",
      "U+1E59", "U+1E5A", "U+1E5B", "U+1E5C", "U+1E5D", "U+1E5E", "U+1E5F",
      "U+1E60", "U+1E61", "U+1E62", "U+1E63", "U+1E64", "U+1E65", "U+1E66",
      "U+1E67", "U+1E68", "U+1E69", "U+1E6A", "U+1E6B", "U+1E6C", "U+1E6D",
      "U+1E6E", "U+1E6F", "U+1E70", "U+1E71", "U+1E72", "U+1E73", "U+1E74",
      "U+1E75", "U+1E76", "U+1E77", "U+1E78", "U+1E79", "U+1E7A", "U+1E7B",
      "U+1E7C", "U+1E7D", "U+1E7E", "U+1E7F", "Ẁ", "ẁ", "Ẃ", "ẃ", "Ẅ", "ẅ",
      "Ẇ", "ẇ", "Ẉ", "ẉ", "Ẋ", "ẋ", "Ẍ", "ẍ", "Ẏ", "ẏ", "Ẑ", "ẑ", "Ẓ", "ẓ",
      "Ẕ", "ẕ", "ẖ", "ẗ", "ẘ", "ẙ", "ẚ", "ẛ", "ẜ", "ẝ", "ẞ", "ẟ", "Ạ", "ạ",
      "Ả", "ả", "Ấ", "ấ", "Ầ", "ầ", "Ẩ", "ẩ", "Ẫ", "ẫ", "Ậ", "ậ", "Ắ", "ắ",
      "Ằ", "ằ", "Ẳ", "ẳ", "Ẵ", "ẵ", "Ặ", "ặ", "Ẹ", "ẹ", "Ẻ", "ẻ", "Ẽ", "ẽ",
      "Ế", "ế", "Ề", "ề", "Ể", "ể", "Ễ", "ễ", "Ệ", "ệ", "Ỉ", "ỉ", "Ị", "ị",
      "Ọ", "ọ", "Ỏ", "ỏ", "Ố", "ố", "Ồ", "ồ", "Ổ", "ổ", "Ỗ", "ỗ", "Ộ", "ộ",
      "Ớ", "ớ", "Ờ", "ờ", "Ở", "ở", "Ỡ", "ỡ", "Ợ", "ợ", "Ụ", "ụ", "Ủ", "ủ",
      "Ứ", "ứ", "Ừ", "ừ", "Ử", "ử", "Ữ", "ữ", "Ự", "ự", "Ỳ", "ỳ", "Ỵ", "ỵ",
      "Ỷ", "ỷ", "Ỹ", "ỹ", "Ỻ", "ỻ", "Ỽ", "ỽ", "Ỿ", "ỿ", "U+1F00", "U+1F01",
      "U+1F02", "U+1F03", "U+1F04", "U+1F05", "U+1F06", "U+1F07", "U+1F08",
      "U+1F09", "U+1F0A", "U+1F0B", "U+1F0C", "U+1F0D", "U+1F0E", "U+1F0F",
      "U+1F10", "U+1F11", "U+1F12", "U+1F13", "U+1F14", "U+1F15", "U+1F18",
      "U+1F19", "U+1F1A", "U+1F1B", "U+1F1C", "U+1F1D", "U+1F20", "U+1F21",
      "U+1F22", "U+1F23", "U+1F24", "U+1F25", "U+1F26", "U+1F27", "U+1F28",
      "U+1F29", "U+1F2A", "U+1F2B", "U+1F2C", "U+1F2D", "U+1F2E", "U+1F2F",
      "U+1F30", "U+1F31", "U+1F32", "U+1F33", "U+1F34", "U+1F35", "U+1F36",
      "U+1F37", "U+1F38", "U+1F39", "U+1F3A", "U+1F3B", "U+1F3C", "U+1F3D",
      "U+1F3E", "U+1F3F", "U+1F40", "U+1F41", "U+1F42", "U+1F43", "U+1F44",
      "U+1F45", "U+1F48", "U+1F49", "U+1F4A", "U+1F4B", "U+1F4C", "U+1F4D",
      "U+1F50", "U+1F51", "U+1F52", "U+1F53", "U+1F54", "U+1F55", "U+1F56",
      "U+1F57", "U+1F59", "U+1F5B", "U+1F5D", "U+1F5F", "U+1F60", "U+1F61",
      "U+1F62", "U+1F63", "U+1F64", "U+1F65", "U+1F66", "U+1F67", "U+1F68",
      "U+1F69", "U+1F6A", "U+1F6B", "U+1F6C", "U+1F6D", "U+1F6E", "U+1F6F",
      "U+1F70", "U+1F71", "U+1F72", "U+1F73", "U+1F74", "U+1F75", "U+1F76",
      "U+1F77", "U+1F78", "U+1F79", "U+1F7A", "U+1F7B", "U+1F7C", "U+1F7D",
      "ᾀ", "ᾁ", "ᾂ", "ᾃ", "ᾄ", "ᾅ", "ᾆ", "ᾇ", "ᾈ", "ᾉ", "ᾊ", "ᾋ", "ᾌ", "ᾍ",
      "ᾎ", "ᾏ", "ᾐ", "ᾑ", "ᾒ", "ᾓ", "ᾔ", "ᾕ", "ᾖ", "ᾗ", "ᾘ", "ᾙ", "ᾚ", "ᾛ",
      "ᾜ", "ᾝ", "ᾞ", "ᾟ", "ᾠ", "ᾡ", "ᾢ", "ᾣ", "ᾤ", "ᾥ", "ᾦ", "ᾧ", "ᾨ", "ᾩ",
      "ᾪ", "ᾫ", "ᾬ", "ᾭ", "ᾮ", "ᾯ", "ᾰ", "ᾱ", "ᾲ", "ᾳ", "ᾴ", "ᾶ", "ᾷ", "Ᾰ",
      "Ᾱ", "Ὰ", "Ά", "ᾼ", "ι", "ῂ", "ῃ", "ῄ", "ῆ", "ῇ", "Ὲ", "Έ", "Ὴ", "Ή",
      "ῌ", "ῐ", "ῑ", "ῒ", "ΐ", "ῖ", "ῗ", "Ῐ", "Ῑ", "Ὶ", "Ί", "ῠ", "ῡ", "ῢ",
      "ΰ", "ῤ", "ῥ", "ῦ", "ῧ", "Ῠ", "Ῡ", "Ὺ", "Ύ", "Ῥ", "ῲ", "ῳ", "ῴ", "ῶ",
      "ῷ", "Ὸ", "Ό", "Ὼ", "Ώ", "ῼ", "U+2102", "U+2107", "U+210A", "U+210B",
      "U+210C", "U+210D", "U+210E", "U+210F", "U+2110", "U+2111", "U+2112",
      "U+2113", "U+2115", "U+2119", "U+211A", "U+211B", "U+211C", "U+211D",
      "U+2124", "U+2126", "U+2128", "U+212A", "U+212B", "U+212C", "U+212D",
      "U+212F", "U+2130", "U+2131", "U+2132", "U+2133", "U+2134", "U+2139",
      "U+213C", "U+213D", "U+213E", "U+213F", "U+2145", "U+2146", "U+2147",
      "U+2148", "U+2149", "U+214E", "U+2160", "U+2161", "U+2162", "U+2163",
      "U+2164", "U+2165", "U+2166", "U+2167", "U+2168", "U+2169", "U+216A",
      "U+216B", "U+216C", "U+216D", "U+216E", "U+216F", "U+2170", "U+2171",
      "U+2172", "U+2173", "U+2174", "U+2175", "U+2176", "U+2177", "U+2178",
      "U+2179", "U+217A", "U+217B", "U+217C", "U+217D", "U+217E", "U+217F",
      "Ↄ", "ↄ", "Ⓐ", "Ⓑ", "Ⓒ", "Ⓓ", "Ⓔ", "Ⓕ", "Ⓖ", "Ⓗ", "Ⓘ", "Ⓙ", "Ⓚ", "Ⓛ",
      "Ⓜ", "Ⓝ", "Ⓞ", "Ⓟ", "Ⓠ", "Ⓡ", "Ⓢ", "Ⓣ", "Ⓤ", "Ⓥ", "Ⓦ", "Ⓧ", "Ⓨ", "Ⓩ",
      "ⓐ", "ⓑ", "ⓒ", "ⓓ", "ⓔ", "ⓕ", "ⓖ", "ⓗ", "ⓘ", "ⓙ", "ⓚ", "ⓛ", "ⓜ", "ⓝ",
      "ⓞ", "ⓟ", "ⓠ", "ⓡ", "ⓢ", "ⓣ", "ⓤ", "ⓥ", "ⓦ", "ⓧ", "ⓨ", "ⓩ", "U+2C00",
      "U+2C01", "U+2C02", "U+2C03", "U+2C04", "U+2C05", "U+2C06", "U+2C07",
      "U+2C08", "U+2C09", "U+2C0A", "U+2C0B", "U+2C0C", "U+2C0D", "U+2C0E",
      "U+2C0F", "U+2C10", "U+2C11", "U+2C12", "U+2C13", "U+2C14", "U+2C15",
      "U+2C16", "U+2C17", "U+2C18", "U+2C19", "U+2C1A", "U+2C1B", "U+2C1C",
      "U+2C1D", "U+2C1E", "U+2C1F", "U+2C20", "U+2C21", "U+2C22", "U+2C23",
      "U+2C24", "U+2C25", "U+2C26", "U+2C27", "U+2C28", "U+2C29", "U+2C2A",
      "U+2C2B", "U+2C2C", "U+2C2D", "U+2C2E", "U+2C2F", "U+2C30", "U+2C31",
      "U+2C32", "U+2C33", "U+2C34", "U+2C35", "U+2C36", "U+2C37", "U+2C38",
      "U+2C39", "U+2C3A", "U+2C3B", "U+2C3C", "U+2C3D", "U+2C3E", "U+2C3F",
      "U+2C40", "U+2C41", "U+2C42", "U+2C43", "U+2C44", "U+2C45", "U+2C46",
      "U+2C47", "U+2C48", "U+2C49", "U+2C4A", "U+2C4B", "U+2C4C", "U+2C4D",
      "U+2C4E", "U+2C4F", "U+2C50", "U+2C51", "U+2C52", "U+2C53", "U+2C54",
      "U+2C55", "U+2C56", "U+2C57", "U+2C58", "U+2C59", "U+2C5A", "U+2C5B",
      "U+2C5C", "U+2C5D", "U+2C5E", "U+2C5F", "U+2C60", "U+2C61", "U+2C62",
      "U+2C63", "U+2C64", "U+2C65", "U+2C66", "U+2C67", "U+2C68", "U+2C69",
      "U+2C6A", "U+2C6B", "U+2C6C", "U+2C6D", "U+2C6E", "U+2C6F", "U+2C70",
      "U+2C71", "U+2C72", "U+2C73", "U+2C74", "U+2C75", "U+2C76", "U+2C77",
      "U+2C78", "U+2C79", "U+2C7A", "U+2C7B", "U+2C7E", "U+2C7F", "Ⲁ", "ⲁ",
      "Ⲃ", "ⲃ", "Ⲅ", "ⲅ", "Ⲇ", "ⲇ", "Ⲉ", "ⲉ", "Ⲋ", "ⲋ", "Ⲍ", "ⲍ", "Ⲏ", "ⲏ",
      "Ⲑ", "ⲑ", "Ⲓ", "ⲓ", "Ⲕ", "ⲕ", "Ⲗ", "ⲗ", "Ⲙ", "ⲙ", "Ⲛ", "ⲛ", "Ⲝ", "ⲝ",
      "Ⲟ", "ⲟ", "Ⲡ", "ⲡ", "Ⲣ", "ⲣ", "Ⲥ", "ⲥ", "Ⲧ", "ⲧ", "Ⲩ", "ⲩ", "Ⲫ", "ⲫ",
      "Ⲭ", "ⲭ", "Ⲯ", "ⲯ", "Ⲱ", "ⲱ", "Ⲳ", "ⲳ", "Ⲵ", "ⲵ", "Ⲷ", "ⲷ", "Ⲹ", "ⲹ",
      "Ⲻ", "ⲻ", "Ⲽ", "ⲽ", "Ⲿ", "ⲿ", "Ⳁ", "ⳁ", "Ⳃ", "ⳃ", "Ⳅ", "ⳅ", "Ⳇ", "ⳇ",
      "Ⳉ", "ⳉ", "Ⳋ", "ⳋ", "Ⳍ", "ⳍ", "Ⳏ", "ⳏ", "Ⳑ", "ⳑ", "Ⳓ", "ⳓ", "Ⳕ", "ⳕ",
      "Ⳗ", "ⳗ", "Ⳙ", "ⳙ", "Ⳛ", "ⳛ", "Ⳝ", "ⳝ", "Ⳟ", "ⳟ", "Ⳡ", "ⳡ", "Ⳣ", "ⳣ",
      "ⳤ", "Ⳬ", "ⳬ", "Ⳮ", "ⳮ", "Ⳳ", "ⳳ", "U+2D00", "U+2D01", "U+2D02",
      "U+2D03", "U+2D04", "U+2D05", "U+2D06", "U+2D07", "U+2D08", "U+2D09",
      "U+2D0A", "U+2D0B", "U+2D0C", "U+2D0D", "U+2D0E", "U+2D0F", "U+2D10",
      "U+2D11", "U+2D12", "U+2D13", "U+2D14", "U+2D15", "U+2D16", "U+2D17",
      "U+2D18", "U+2D19", "U+2D1A", "U+2D1B", "U+2D1C", "U+2D1D", "U+2D1E",
      "U+2D1F", "U+2D20", "U+2D21", "U+2D22", "U+2D23", "U+2D24", "U+2D25",
      "U+2D27", "U+2D2D", "U+A640", "U+A641", "U+A642", "U+A643", "U+A644",
      "U+A645", "U+A646", "U+A647", "U+A648", "U+A649", "U+A64A", "U+A64B",
      "U+A64C", "U+A64D", "U+A64E", "U+A64F", "U+A650", "U+A651", "U+A652",
      "U+A653", "U+A654", "U+A655", "U+A656", "U+A657", "U+A658", "U+A659",
      "U+A65A", "U+A65B", "U+A65C", "U+A65D", "U+A65E", "U+A65F", "U+A660",
      "U+A661", "U+A662", "U+A663", "U+A664", "U+A665", "U+A666", "U+A667",
      "U+A668", "U+A669", "U+A66A", "U+A66B", "U+A66C", "U+A66D", "Ꚁ", "ꚁ",
      "Ꚃ", "ꚃ", "Ꚅ", "ꚅ", "Ꚇ", "ꚇ", "Ꚉ", "ꚉ", "Ꚋ", "ꚋ", "Ꚍ", "ꚍ", "Ꚏ", "ꚏ",
      "Ꚑ", "ꚑ", "Ꚓ", "ꚓ", "Ꚕ", "ꚕ", "Ꚗ", "ꚗ", "Ꚙ", "ꚙ", "Ꚛ", "ꚛ", "U+A722",
      "U+A723", "U+A724", "U+A725", "U+A726", "U+A727", "U+A728", "U+A729",
      "U+A72A", "U+A72B", "U+A72C", "U+A72D", "U+A72E", "U+A72F", "U+A730",
      "U+A731", "U+A732", "U+A733", "U+A734", "U+A735", "U+A736", "U+A737",
      "U+A738", "U+A739", "U+A73A", "U+A73B", "U+A73C", "U+A73D", "U+A73E",
      "U+A73F", "U+A740", "U+A741", "U+A742", "U+A743", "U+A744", "U+A745",
      "U+A746", "U+A747", "U+A748", "U+A749", "U+A74A", "U+A74B", "U+A74C",
      "U+A74D", "U+A74E", "U+A74F", "U+A750", "U+A751", "U+A752", "U+A753",
      "U+A754", "U+A755", "U+A756", "U+A757", "U+A758", "U+A759", "U+A75A",
      "U+A75B", "U+A75C", "U+A75D", "U+A75E", "U+A75F", "U+A760", "U+A761",
      "U+A762", "U+A763", "U+A764", "U+A765", "U+A766", "U+A767", "U+A768",
      "U+A769", "U+A76A", "U+A76B", "U+A76C", "U+A76D", "U+A76E", "U+A76F",
      "U+A771", "U+A772", "U+A773", "U+A774", "U+A775", "U+A776", "U+A777",
      "U+A778", "U+A779", "U+A77A", "U+A77B", "U+A77C", "U+A77D", "U+A77E",
      "U+A77F", "Ꞁ", "ꞁ", "Ꞃ", "ꞃ", "Ꞅ", "ꞅ", "Ꞇ", "ꞇ", "Ꞌ", "ꞌ", "Ɥ", "ꞎ",
      "Ꞑ", "ꞑ", "Ꞓ", "ꞓ", "ꞔ", "ꞕ", "Ꞗ", "ꞗ", "Ꞙ", "ꞙ", "Ꞛ", "ꞛ", "Ꞝ", "ꞝ",
      "Ꞟ", "ꞟ", "Ꞡ", "ꞡ", "Ꞣ", "ꞣ", "Ꞥ", "ꞥ", "Ꞧ", "ꞧ", "Ꞩ", "ꞩ", "Ɦ", "Ɜ",
      "Ɡ", "Ɬ", "Ɪ", "ꞯ", "Ʞ", "Ʇ", "Ʝ", "Ꭓ", "Ꞵ", "ꞵ", "Ꞷ", "ꞷ", "Ꞹ", "ꞹ",
      "Ꞻ", "ꞻ", "Ꞽ", "ꞽ", "Ꞿ", "ꞿ", "Ꟁ", "ꟁ", "Ꟃ", "ꟃ", "Ꞔ", "Ʂ", "Ᶎ", "Ꟈ",
      "ꟈ", "Ꟊ", "ꟊ", "Ꟑ", "ꟑ", "ꟓ", "ꟕ", "Ꟗ", "ꟗ", "Ꟙ", "ꟙ", "Ꟶ", "ꟶ", "ꟺ",
      "U+AB30", "U+AB31", "U+AB32", "U+AB33", "U+AB34", "U+AB35", "U+AB36",
      "U+AB37", "U+AB38", "U+AB39", "U+AB3A", "U+AB3B", "U+AB3C", "U+AB3D",
      "U+AB3E", "U+AB3F", "U+AB40", "U+AB41", "U+AB42", "U+AB43", "U+AB44",
      "U+AB45", "U+AB46", "U+AB47", "U+AB48", "U+AB49", "U+AB4A", "U+AB4B",
      "U+AB4C", "U+AB4D", "U+AB4E", "U+AB4F", "U+AB50", "U+AB51", "U+AB52",
      "U+AB53", "U+AB54", "U+AB55", "U+AB56", "U+AB57", "U+AB58", "U+AB59",
      "U+AB5A", "U+AB60", "U+AB61", "U+AB62", "U+AB63", "U+AB64", "U+AB65",
      "U+AB66", "U+AB67", "U+AB68", "U+AB70", "U+AB71", "U+AB72", "U+AB73",
      "U+AB74", "U+AB75", "U+AB76", "U+AB77", "U+AB78", "U+AB79", "U+AB7A",
      "U+AB7B", "U+AB7C", "U+AB7D", "U+AB7E", "U+AB7F", "ꮀ", "ꮁ", "ꮂ", "ꮃ",
      "ꮄ", "ꮅ", "ꮆ", "ꮇ", "ꮈ", "ꮉ", "ꮊ", "ꮋ", "ꮌ", "ꮍ", "ꮎ", "ꮏ", "ꮐ", "ꮑ",
      "ꮒ", "ꮓ", "ꮔ", "ꮕ", "ꮖ", "ꮗ", "ꮘ", "ꮙ", "ꮚ", "ꮛ", "ꮜ", "ꮝ", "ꮞ", "ꮟ",
      "ꮠ", "ꮡ", "ꮢ", "ꮣ", "ꮤ", "ꮥ", "ꮦ", "ꮧ", "ꮨ", "ꮩ", "ꮪ", "ꮫ", "ꮬ", "ꮭ",
      "ꮮ", "ꮯ", "ꮰ", "ꮱ", "ꮲ", "ꮳ", "ꮴ", "ꮵ", "ꮶ", "ꮷ", "ꮸ", "ꮹ", "ꮺ", "ꮻ",
      "ꮼ", "ꮽ", "ꮾ", "ꮿ", "U+FB00", "U+FB01", "U+FB02", "U+FB03", "U+FB04",
      "U+FB05", "U+FB06", "U+FB13", "U+FB14", "U+FB15", "U+FB16", "U+FB17",
      "U+FF21", "U+FF22", "U+FF23", "U+FF24", "U+FF25", "U+FF26", "U+FF27",
      "U+FF28", "U+FF29", "U+FF2A", "U+FF2B", "U+FF2C", "U+FF2D", "U+FF2E",
      "U+FF2F", "U+FF30", "U+FF31", "U+FF32", "U+FF33", "U+FF34", "U+FF35",
      "U+FF36", "U+FF37", "U+FF38", "U+FF39", "U+FF3A", "U+FF41", "U+FF42",
      "U+FF43", "U+FF44", "U+FF45", "U+FF46", "U+FF47", "U+FF48", "U+FF49",
      "U+FF4A", "U+FF4B", "U+FF4C", "U+FF4D", "U+FF4E", "U+FF4F", "U+FF50",
      "U+FF51", "U+FF52", "U+FF53", "U+FF54", "U+FF55", "U+FF56", "U+FF57",
      "U+FF58", "U+FF59", "U+FF5A", "U+10400", "U+10401", "U+10402",
      "U+10403", "U+10404", "U+10405", "U+10406", "U+10407", "U+10408",
      "U+10409", "U+1040A", "U+1040B", "U+1040C", "U+1040D", "U+1040E",
      "U+1040F", "U+10410", "U+10411", "U+10412", "U+10413", "U+10414",
      "U+10415", "U+10416", "U+10417", "U+10418", "U+10419", "U+1041A",
      "U+1041B", "U+1041C", "U+1041D", "U+1041E", "U+1041F", "U+10420",
      "U+10421", "U+10422", "U+10423", "U+10424", "U+10425", "U+10426",
      "U+10427", "U+10428", "U+10429", "U+1042A", "U+1042B", "U+1042C",
      "U+1042D", "U+1042E", "U+1042F", "U+10430", "U+10431", "U+10432",
      "U+10433", "U+10434", "U+10435", "U+10436", "U+10437", "U+10438",
      "U+10439", "U+1043A", "U+1043B", "U+1043C", "U+1043D", "U+1043E",
      "U+1043F", "U+10440", "U+10441", "U+10442", "U+10443", "U+10444",
      "U+10445", "U+10446", "U+10447", "U+10448", "U+10449", "U+1044A",
      "U+1044B", "U+1044C", "U+1044D", "U+1044E", "U+1044F", "U+104B0",
      "U+104B1", "U+104B2", "U+104B3", "U+104B4", "U+104B5", "U+104B6",
      "U+104B7", "U+104B8", "U+104B9", "U+104BA", "U+104BB", "U+104BC",
      "U+104BD", "U+104BE", "U+104BF", "U+104C0", "U+104C1", "U+104C2",
      "U+104C3", "U+104C4", "U+104C5", "U+104C6", "U+104C7", "U+104C8",
      "U+104C9", "U+104CA", "U+104CB", "U+104CC", "U+104CD", "U+104CE",
      "U+104CF", "U+104D0", "U+104D1", "U+104D2", "U+104D3", "U+104D8",
      "U+104D9", "U+104DA", "U+104DB", "U+104DC", "U+104DD", "U+104DE",
      "U+104DF", "U+104E0", "U+104E1", "U+104E2", "U+104E3", "U+104E4",
      "U+104E5", "U+104E6", "U+104E7", "U+104E8", "U+104E9", "U+104EA",
      "U+104EB", "U+104EC", "U+104ED", "U+104EE", "U+104EF", "U+104F0",
      "U+104F1", "U+104F2", "U+104F3", "U+104F4", "U+104F5", "U+104F6",
      "U+104F7", "U+104F8", "U+104F9", "U+104FA", "U+104FB", "U+10570",
      "U+10571", "U+10572", "U+10573", "U+10574", "U+10575", "U+10576",
      "U+10577", "U+10578", "U+10579", "U+1057A", "U+1057C", "U+1057D",
      "U+1057E", "U+1057F", "U+10580", "U+10581", "U+10582", "U+10583",
      "U+10584", "U+10585", "U+10586", "U+10587", "U+10588", "U+10589",
      "U+1058A", "U+1058C", "U+1058D", "U+1058E", "U+1058F", "U+10590",
      "U+10591", "U+10592", "U+10594", "U+10595", "U+10597", "U+10598",
      "U+10599", "U+1059A", "U+1059B", "U+1059C", "U+1059D", "U+1059E",
      "U+1059F", "U+105A0", "U+105A1", "U+105A3", "U+105A4", "U+105A5",
      "U+105A6", "U+105A7", "U+105A8", "U+105A9", "U+105AA", "U+105AB",
      "U+105AC", "U+105AD", "U+105AE", "U+105AF", "U+105B0", "U+105B1",
      "U+105B3", "U+105B4", "U+105B5", "U+105B6", "U+105B7", "U+105B8",
      "U+105B9", "U+105BB", "U+105BC", "U+10C80", "U+10C81", "U+10C82",
      "U+10C83", "U+10C84", "U+10C85", "U+10C86", "U+10C87", "U+10C88",
      "U+10C89", "U+10C8A", "U+10C8B", "U+10C8C", "U+10C8D", "U+10C8E",
      "U+10C8F", "U+10C90", "U+10C91", "U+10C92", "U+10C93", "U+10C94",
      "U+10C95", "U+10C96", "U+10C97", "U+10C98", "U+10C99", "U+10C9A",
      "U+10C9B", "U+10C9C", "U+10C9D", "U+10C9E", "U+10C9F", "U+10CA0",
      "U+10CA1", "U+10CA2", "U+10CA3", "U+10CA4", "U+10CA5", "U+10CA6",
      "U+10CA7", "U+10CA8", "U+10CA9", "U+10CAA", "U+10CAB", "U+10CAC",
      "U+10CAD", "U+10CAE", "U+10CAF", "U+10CB0", "U+10CB1", "U+10CB2",
      "U+10CC0", "U+10CC1", "U+10CC2", "U+10CC3", "U+10CC4", "U+10CC5",
      "U+10CC6", "U+10CC7", "U+10CC8", "U+10CC9", "U+10CCA", "U+10CCB",
      "U+10CCC", "U+10CCD", "U+10CCE", "U+10CCF", "U+10CD0", "U+10CD1",
      "U+10CD2", "U+10CD3", "U+10CD4", "U+10CD5", "U+10CD6", "U+10CD7",
      "U+10CD8", "U+10CD9", "U+10CDA", "U+10CDB", "U+10CDC", "U+10CDD",
      "U+10CDE", "U+10CDF", "U+10CE0", "U+10CE1", "U+10CE2", "U+10CE3",
      "U+10CE4", "U+10CE5", "U+10CE6", "U+10CE7", "U+10CE8", "U+10CE9",
      "U+10CEA", "U+10CEB", "U+10CEC", "U+10CED", "U+10CEE", "U+10CEF",
      "U+10CF0", "U+10CF1", "U+10CF2", "U+118A0", "U+118A1", "U+118A2",
      "U+118A3", "U+118A4", "U+118A5", "U+118A6", "U+118A7", "U+118A8",
      "U+118A9", "U+118AA", "U+118AB", "U+118AC", "U+118AD", "U+118AE",
      "U+118AF", "U+118B0", "U+118B1", "U+118B2", "U+118B3", "U+118B4",
      "U+118B5", "U+118B6", "U+118B7", "U+118B8", "U+118B9", "U+118BA",
      "U+118BB", "U+118BC", "U+118BD", "U+118BE", "U+118BF", "U+118C0",
      "U+118C1", "U+118C2", "U+118C3", "U+118C4", "U+118C5", "U+118C6",
      "U+118C7", "U+118C8", "U+118C9", "U+118CA", "U+118CB", "U+118CC",
      "U+118CD", "U+118CE", "U+118CF", "U+118D0", "U+118D1", "U+118D2",
      "U+118D3", "U+118D4", "U+118D5", "U+118D6", "U+118D7", "U+118D8",
      "U+118D9", "U+118DA", "U+118DB", "U+118DC", "U+118DD", "U+118DE",
      "U+118DF", "U+16E40", "U+16E41", "U+16E42", "U+16E43", "U+16E44",
      "U+16E45", "U+16E46", "U+16E47", "U+16E48", "U+16E49", "U+16E4A",
      "U+16E4B", "U+16E4C", "U+16E4D", "U+16E4E", "U+16E4F", "U+16E50",
      "U+16E51", "U+16E52", "U+16E53", "U+16E54", "U+16E55", "U+16E56",
      "U+16E57", "U+16E58", "U+16E59", "U+16E5A", "U+16E5B", "U+16E5C",
      "U+16E5D", "U+16E5E", "U+16E5F", "U+16E60", "U+16E61", "U+16E62",
      "U+16E63", "U+16E64", "U+16E65", "U+16E66", "U+16E67", "U+16E68",
      "U+16E69", "U+16E6A", "U+16E6B", "U+16E6C", "U+16E6D", "U+16E6E",
      "U+16E6F", "U+16E70", "U+16E71", "U+16E72", "U+16E73", "U+16E74",
      "U+16E75", "U+16E76", "U+16E77", "U+16E78", "U+16E79", "U+16E7A",
      "U+16E7B", "U+16E7C", "U+16E7D", "U+16E7E", "U+16E7F", "U+1D400",
      "U+1D401", "U+1D402", "U+1D403", "U+1D404", "U+1D405", "U+1D406",
      "U+1D407", "U+1D408", "U+1D409", "U+1D40A", "U+1D40B", "U+1D40C",
      "U+1D40D", "U+1D40E", "U+1D40F", "U+1D410", "U+1D411", "U+1D412",
      "U+1D413", "U+1D414", "U+1D415", "U+1D416", "U+1D417", "U+1D418",
      "U+1D419", "U+1D41A", "U+1D41B", "U+1D41C", "U+1D41D", "U+1D41E",
      "U+1D41F", "U+1D420", "U+1D421", "U+1D422", "U+1D423", "U+1D424",
      "U+1D425", "U+1D426", "U+1D427", "U+1D428", "U+1D429", "U+1D42A",
      "U+1D42B", "U+1D42C", "U+1D42D", "U+1D42E", "U+1D42F", "U+1D430",
      "U+1D431", "U+1D432", "U+1D433", "U+1D434", "U+1D435", "U+1D436",
      "U+1D437", "U+1D438", "U+1D439", "U+1D43A", "U+1D43B", "U+1D43C",
      "U+1D43D", "U+1D43E", "U+1D43F", "U+1D440", "U+1D441", "U+1D442",
      "U+1D443", "U+1D444", "U+1D445", "U+1D446", "U+1D447", "U+1D448",
      "U+1D449", "U+1D44A", "U+1D44B", "U+1D44C", "U+1D44D", "U+1D44E",
      "U+1D44F", "U+1D450", "U+1D451", "U+1D452", "U+1D453", "U+1D454",
      "U+1D456", "U+1D457", "U+1D458", "U+1D459", "U+1D45A", "U+1D45B",
      "U+1D45C", "U+1D45D", "U+1D45E", "U+1D45F", "U+1D460", "U+1D461",
      "U+1D462", "U+1D463", "U+1D464", "U+1D465", "U+1D466", "U+1D467",
      "U+1D468", "U+1D469", "U+1D46A", "U+1D46B", "U+1D46C", "U+1D46D",
      "U+1D46E", "U+1D46F", "U+1D470", "U+1D471", "U+1D472", "U+1D473",
      "U+1D474", "U+1D475", "U+1D476", "U+1D477", "U+1D478", "U+1D479",
      "U+1D47A", "U+1D47B", "U+1D47C", "U+1D47D", "U+1D47E", "U+1D47F",
      "U+1D480", "U+1D481", "U+1D482", "U+1D483", "U+1D484", "U+1D485",
      "U+1D486", "U+1D487", "U+1D488", "U+1D489", "U+1D48A", "U+1D48B",
      "U+1D48C", "U+1D48D", "U+1D48E", "U+1D48F", "U+1D490", "U+1D491",
      "U+1D492", "U+1D493", "U+1D494", "U+1D495", "U+1D496", "U+1D497",
      "U+1D498", "U+1D499", "U+1D49A", "U+1D49B", "U+1D49C", "U+1D49E",
      "U+1D49F", "U+1D4A2", "U+1D4A5", "U+1D4A6", "U+1D4A9", "U+1D4AA",
      "U+1D4AB", "U+1D4AC", "U+1D4AE", "U+1D4AF", "U+1D4B0", "U+1D4B1",
      "U+1D4B2", "U+1D4B3", "U+1D4B4", "U+1D4B5", "U+1D4B6", "U+1D4B7",
      "U+1D4B8", "U+1D4B9", "U+1D4BB", "U+1D4BD", "U+1D4BE", "U+1D4BF",
      "U+1D4C0", "U+1D4C1", "U+1D4C2", "U+1D4C3", "U+1D4C5", "U+1D4C6",
      "U+1D4C7", "U+1D4C8", "U+1D4C9", "U+1D4CA", "U+1D4CB", "U+1D4CC",
      "U+1D4CD", "U+1D4CE", "U+1D4CF", "U+1D4D0", "U+1D4D1", "U+1D4D2",
      "U+1D4D3", "U+1D4D4", "U+1D4D5", "U+1D4D6", "U+1D4D7", "U+1D4D8",
      "U+1D4D9", "U+1D4DA", "U+1D4DB", "U+1D4DC", "U+1D4DD", "U+1D4DE",
      "U+1D4DF", "U+1D4E0", "U+1D4E1", "U+1D4E2", "U+1D4E3", "U+1D4E4",
      "U+1D4E5", "U+1D4E6", "U+1D4E7", "U+1D4E8", "U+1D4E9", "U+1D4EA",
      "U+1D4EB", "U+1D4EC", "U+1D4ED", "U+1D4EE", "U+1D4EF", "U+1D4F0",
      "U+1D4F1", "U+1D4F2", "U+1D4F3", "U+1D4F4", "U+1D4F5", "U+1D4F6",
      "U+1D4F7", "U+1D4F8", "U+1D4F9", "U+1D4FA", "U+1D4FB", "U+1D4FC",
      "U+1D4FD", "U+1D4FE", "U+1D4FF", "U+1D500", "U+1D501", "U+1D502",
      "U+1D503", "U+1D504", "U+1D505", "U+1D507", "U+1D508", "U+1D509",
      "U+1D50A", "U+1D50D", "U+1D50E", "U+1D50F", "U+1D510", "U+1D511",
      "U+1D512", "U+1D513", "U+1D514", "U+1D516", "U+1D517", "U+1D518",
      "U+1D519", "U+1D51A", "U+1D51B", "U+1D51C", "U+1D51E", "U+1D51F",
      "U+1D520", "U+1D521", "U+1D522", "U+1D523", "U+1D524", "U+1D525",
      "U+1D526", "U+1D527", "U+1D528", "U+1D529", "U+1D52A", "U+1D52B",
      "U+1D52C", "U+1D52D", "U+1D52E", "U+1D52F", "U+1D530", "U+1D531",
      "U+1D532", "U+1D533", "U+1D534", "U+1D535", "U+1D536", "U+1D537",
      "U+1D538", "U+1D539", "U+1D53B", "U+1D53C", "U+1D53D", "U+1D53E",
      "U+1D540", "U+1D541", "U+1D542", "U+1D543", "U+1D544", "U+1D546",
      "U+1D54A", "U+1D54B", "U+1D54C", "U+1D54D", "U+1D54E", "U+1D54F",
      "U+1D550", "U+1D552", "U+1D553", "U+1D554", "U+1D555", "U+1D556",
      "U+1D557", "U+1D558", "U+1D559", "U+1D55A", "U+1D55B", "U+1D55C",
      "U+1D55D", "U+1D55E", "U+1D55F", "U+1D560", "U+1D561", "U+1D562",
      "U+1D563", "U+1D564", "U+1D565", "U+1D566", "U+1D567", "U+1D568",
      "U+1D569", "U+1D56A", "U+1D56B", "U+1D56C", "U+1D56D", "U+1D56E",
      "U+1D56F", "U+1D570", "U+1D571", "U+1D572", "U+1D573", "U+1D574",
      "U+1D575", "U+1D576", "U+1D577", "U+1D578", "U+1D579", "U+1D57A",
      "U+1D57B", "U+1D57C", "U+1D57D", "U+1D57E", "U+1D57F", "U+1D580",
      "U+1D581", "U+1D582", "U+1D583", "U+1D584", "U+1D585", "U+1D586",
      "U+1D587", "U+1D588", "U+1D589", "U+1D58A", "U+1D58B", "U+1D58C",
      "U+1D58D", "U+1D58E", "U+1D58F", "U+1D590", "U+1D591", "U+1D592",
      "U+1D593", "U+1D594", "U+1D595", "U+1D596", "U+1D597", "U+1D598",
      "U+1D599", "U+1D59A", "U+1D59B", "U+1D59C", "U+1D59D", "U+1D59E",
      "U+1D59F", "U+1D5A0", "U+1D5A1", "U+1D5A2", "U+1D5A3", "U+1D5A4",
      "U+1D5A5", "U+1D5A6", "U+1D5A7", "U+1D5A8", "U+1D5A9", "U+1D5AA",
      "U+1D5AB", "U+1D5AC", "U+1D5AD", "U+1D5AE", "U+1D5AF", "U+1D5B0",
      "U+1D5B1", "U+1D5B2", "U+1D5B3", "U+1D5B4", "U+1D5B5", "U+1D5B6",
      "U+1D5B7", "U+1D5B8", "U+1D5B9", "U+1D5BA", "U+1D5BB", "U+1D5BC",
      "U+1D5BD", "U+1D5BE", "U+1D5BF", "U+1D5C0", "U+1D5C1", "U+1D5C2",
      "U+1D5C3", "U+1D5C4", "U+1D5C5", "U+1D5C6", "U+1D5C7", "U+1D5C8",
      "U+1D5C9", "U+1D5CA", "U+1D5CB", "U+1D5CC", "U+1D5CD", "U+1D5CE",
      "U+1D5CF", "U+1D5D0", "U+1D5D1", "U+1D5D2", "U+1D5D3", "U+1D5D4",
      "U+1D5D5", "U+1D5D6", "U+1D5D7", "U+1D5D8", "U+1D5D9", "U+1D5DA",
      "U+1D5DB", "U+1D5DC", "U+1D5DD", "U+1D5DE", "U+1D5DF", "U+1D5E0",
      "U+1D5E1", "U+1D5E2", "U+1D5E3", "U+1D5E4", "U+1D5E5", "U+1D5E6",
      "U+1D5E7", "U+1D5E8", "U+1D5E9", "U+1D5EA", "U+1D5EB", "U+1D5EC",
      "U+1D5ED", "U+1D5EE", "U+1D5EF", "U+1D5F0", "U+1D5F1", "U+1D5F2",
      "U+1D5F3", "U+1D5F4", "U+1D5F5", "U+1D5F6", "U+1D5F7", "U+1D5F8",
      "U+1D5F9", "U+1D5FA", "U+1D5FB", "U+1D5FC", "U+1D5FD", "U+1D5FE",
      "U+1D5FF", "U+1D600", "U+1D601", "U+1D602", "U+1D603", "U+1D604",
      "U+1D605", "U+1D606", "U+1D607", "U+1D608", "U+1D609", "U+1D60A",
      "U+1D60B", "U+1D60C", "U+1D60D", "U+1D60E", "U+1D60F", "U+1D610",
      "U+1D611", "U+1D612", "U+1D613", "U+1D614", "U+1D615", "U+1D616",
      "U+1D617", "U+1D618", "U+1D619", "U+1D61A", "U+1D61B", "U+1D61C",
      "U+1D61D", "U+1D61E", "U+1D61F", "U+1D620", "U+1D621", "U+1D622",
      "U+1D623", "U+1D624", "U+1D625", "U+1D626", "U+1D627", "U+1D628",
      "U+1D629", "U+1D62A", "U+1D62B", "U+1D62C", "U+1D62D", "U+1D62E",
      "U+1D62F", "U+1D630", "U+1D631", "U+1D632", "U+1D633", "U+1D634",
      "U+1D635", "U+1D636", "U+1D637", "U+1D638", "U+1D639", "U+1D63A",
      "U+1D63B", "U+1D63C", "U+1D63D", "U+1D63E", "U+1D63F", "U+1D640",
      "U+1D641", "U+1D642", "U+1D643", "U+1D644", "U+1D645", "U+1D646",
      "U+1D647", "U+1D648", "U+1D649", "U+1D64A", "U+1D64B", "U+1D64C",
      "U+1D64D", "U+1D64E", "U+1D64F", "U+1D650", "U+1D651", "U+1D652",
      "U+1D653", "U+1D654", "U+1D655", "U+1D656", "U+1D657", "U+1D658",
      "U+1D659", "U+1D65A", "U+1D65B", "U+1D65C", "U+1D65D", "U+1D65E",
      "U+1D65F", "U+1D660", "U+1D661", "U+1D662", "U+1D663", "U+1D664",
      "U+1D665", "U+1D666", "U+1D667", "U+1D668", "U+1D669", "U+1D66A",
      "U+1D66B", "U+1D66C", "U+1D66D", "U+1D66E", "U+1D66F", "U+1D670",
      "U+1D671", "U+1D672", "U+1D673", "U+1D674", "U+1D675", "U+1D676",
      "U+1D677", "U+1D678", "U+1D679", "U+1D67A", "U+1D67B", "U+1D67C",
      "U+1D67D", "U+1D67E", "U+1D67F", "U+1D680", "U+1D681", "U+1D682",
      "U+1D683", "U+1D684", "U+1D685", "U+1D686", "U+1D687", "U+1D688",
      "U+1D689", "U+1D68A", "U+1D68B", "U+1D68C", "U+1D68D", "U+1D68E",
      "U+1D68F", "U+1D690", "U+1D691", "U+1D692", "U+1D693", "U+1D694",
      "U+1D695", "U+1D696", "U+1D697", "U+1D698", "U+1D699", "U+1D69A",
      "U+1D69B", "U+1D69C", "U+1D69D", "U+1D69E", "U+1D69F", "U+1D6A0",
      "U+1D6A1", "U+1D6A2", "U+1D6A3", "U+1D6A4", "U+1D6A5", "U+1D6A8",
      "U+1D6A9", "U+1D6AA", "U+1D6AB", "U+1D6AC", "U+1D6AD", "U+1D6AE",
      "U+1D6AF", "U+1D6B0", "U+1D6B1", "U+1D6B2", "U+1D6B3", "U+1D6B4",
      "U+1D6B5", "U+1D6B6", "U+1D6B7", "U+1D6B8", "U+1D6B9", "U+1D6BA",
      "U+1D6BB", "U+1D6BC", "U+1D6BD", "U+1D6BE", "U+1D6BF", "U+1D6C0",
      "U+1D6C2", "U+1D6C3", "U+1D6C4", "U+1D6C5", "U+1D6C6", "U+1D6C7",
      "U+1D6C8", "U+1D6C9", "U+1D6CA", "U+1D6CB", "U+1D6CC", "U+1D6CD",
      "U+1D6CE", "U+1D6CF", "U+1D6D0", "U+1D6D1", "U+1D6D2", "U+1D6D3",
      "U+1D6D4", "U+1D6D5", "U+1D6D6", "U+1D6D7", "U+1D6D8", "U+1D6D9",
      "U+1D6DA", "U+1D6DC", "U+1D6DD", "U+1D6DE", "U+1D6DF", "U+1D6E0",
      "U+1D6E1", "U+1D6E2", "U+1D6E3", "U+1D6E4", "U+1D6E5", "U+1D6E6",
      "U+1D6E7", "U+1D6E8", "U+1D6E9", "U+1D6EA", "U+1D6EB", "U+1D6EC",
      "U+1D6ED", "U+1D6EE", "U+1D6EF", "U+1D6F0", "U+1D6F1", "U+1D6F2",
      "U+1D6F3", "U+1D6F4", "U+1D6F5", "U+1D6F6", "U+1D6F7", "U+1D6F8",
      "U+1D6F9", "U+1D6FA", "U+1D6FC", "U+1D6FD", "U+1D6FE", "U+1D6FF",
      "U+1D700", "U+1D701", "U+1D702", "U+1D703", "U+1D704", "U+1D705",
      "U+1D706", "U+1D707", "U+1D708", "U+1D709", "U+1D70A", "U+1D70B",
      "U+1D70C", "U+1D70D", "U+1D70E", "U+1D70F", "U+1D710", "U+1D711",
      "U+1D712", "U+1D713", "U+1D714", "U+1D716", "U+1D717", "U+1D718",
      "U+1D719", "U+1D71A", "U+1D71B", "U+1D71C", "U+1D71D", "U+1D71E",
      "U+1D71F", "U+1D720", "U+1D721", "U+1D722", "U+1D723", "U+1D724",
      "U+1D725", "U+1D726", "U+1D727", "U+1D728", "U+1D729", "U+1D72A",
      "U+1D72B", "U+1D72C", "U+1D72D", "U+1D72E", "U+1D72F", "U+1D730",
      "U+1D731", "U+1D732", "U+1D733", "U+1D734", "U+1D736", "U+1D737",
      "U+1D738", "U+1D739", "U+1D73A", "U+1D73B", "U+1D73C", "U+1D73D",
      "U+1D73E", "U+1D73F", "U+1D740", "U+1D741", "U+1D742", "U+1D743",
      "U+1D744", "U+1D745", "U+1D746", "U+1D747", "U+1D748", "U+1D749",
      "U+1D74A", "U+1D74B", "U+1D74C", "U+1D74D", "U+1D74E", "U+1D750",
      "U+1D751", "U+1D752", "U+1D753", "U+1D754", "U+1D755", "U+1D756",
      "U+1D757", "U+1D758", "U+1D759", "U+1D75A", "U+1D75B", "U+1D75C",
      "U+1D75D", "U+1D75E", "U+1D75F", "U+1D760", "U+1D761", "U+1D762",
      "U+1D763", "U+1D764", "U+1D765", "U+1D766", "U+1D767", "U+1D768",
      "U+1D769", "U+1D76A", "U+1D76B", "U+1D76C", "U+1D76D", "U+1D76E",
      "U+1D770", "U+1D771", "U+1D772", "U+1D773", "U+1D774", "U+1D775",
      "U+1D776", "U+1D777", "U+1D778", "U+1D779", "U+1D77A", "U+1D77B",
      "U+1D77C", "U+1D77D", "U+1D77E", "U+1D77F", "U+1D780", "U+1D781",
      "U+1D782", "U+1D783", "U+1D784", "U+1D785", "U+1D786", "U+1D787",
      "U+1D788", "U+1D78A", "U+1D78B", "U+1D78C", "U+1D78D", "U+1D78E",
      "U+1D78F", "U+1D790", "U+1D791", "U+1D792", "U+1D793", "U+1D794",
      "U+1D795", "U+1D796", "U+1D797", "U+1D798", "U+1D799", "U+1D79A",
      "U+1D79B", "U+1D79C", "U+1D79D", "U+1D79E", "U+1D79F", "U+1D7A0",
      "U+1D7A1", "U+1D7A2", "U+1D7A3", "U+1D7A4", "U+1D7A5", "U+1D7A6",
      "U+1D7A7", "U+1D7A8", "U+1D7AA", "U+1D7AB", "U+1D7AC", "U+1D7AD",
      "U+1D7AE", "U+1D7AF", "U+1D7B0", "U+1D7B1", "U+1D7B2", "U+1D7B3",
      "U+1D7B4", "U+1D7B5", "U+1D7B6", "U+1D7B7", "U+1D7B8", "U+1D7B9",
      "U+1D7BA", "U+1D7BB", "U+1D7BC", "U+1D7BD", "U+1D7BE", "U+1D7BF",
      "U+1D7C0", "U+1D7C1", "U+1D7C2", "U+1D7C4", "U+1D7C5", "U+1D7C6",
      "U+1D7C7", "U+1D7C8", "U+1D7C9", "U+1D7CA", "U+1D7CB", "U+1DF00",
      "U+1DF01", "U+1DF02", "U+1DF03", "U+1DF04", "U+1DF05", "U+1DF06",
      "U+1DF07", "U+1DF08", "U+1DF09", "U+1DF0B", "U+1DF0C", "U+1DF0D",
      "U+1DF0E", "U+1DF0F", "U+1DF10", "U+1DF11", "U+1DF12", "U+1DF13",
      "U+1DF14", "U+1DF15", "U+1DF16", "U+1DF17", "U+1DF18", "U+1DF19",
      "U+1DF1A", "U+1DF1B", "U+1DF1C", "U+1DF1D", "U+1DF1E", "U+1E900",
      "U+1E901", "U+1E902", "U+1E903", "U+1E904", "U+1E905", "U+1E906",
      "U+1E907", "U+1E908", "U+1E909", "U+1E90A", "U+1E90B", "U+1E90C",
      "U+1E90D", "U+1E90E", "U+1E90F", "U+1E910", "U+1E911", "U+1E912",
      "U+1E913", "U+1E914", "U+1E915", "U+1E916", "U+1E917", "U+1E918",
      "U+1E919", "U+1E91A", "U+1E91B", "U+1E91C", "U+1E91D", "U+1E91E",
      "U+1E91F", "U+1E920", "U+1E921", "U+1E922", "U+1E923", "U+1E924",
      "U+1E925", "U+1E926", "U+1E927", "U+1E928", "U+1E929", "U+1E92A",
      "U+1E92B", "U+1E92C", "U+1E92D", "U+1E92E", "U+1E92F", "U+1E930",
      "U+1E931", "U+1E932", "U+1E933", "U+1E934", "U+1E935", "U+1E936",
      "U+1E937", "U+1E938", "U+1E939", "U+1E93A", "U+1E93B", "U+1E93C",
      "U+1E93D", "U+1E93E", "U+1E93F", "U+1E940", "U+1E941", "U+1E942",
      "U+1E943", "U+1F130", "U+1F131", "U+1F132", "U+1F133", "U+1F134",
      "U+1F135", "U+1F136", "U+1F137", "U+1F138", "U+1F139", "U+1F13A",
      "U+1F13B", "U+1F13C", "U+1F13D", "U+1F13E", "U+1F13F", "U+1F140",
      "U+1F141", "U+1F142", "U+1F143", "U+1F144", "U+1F145", "U+1F146",
      "U+1F147", "U+1F148", "U+1F149", "U+1F150", "U+1F151", "U+1F152",
      "U+1F153", "U+1F154", "U+1F155", "U+1F156", "U+1F157", "U+1F158",
      "U+1F159", "U+1F15A", "U+1F15B", "U+1F15C", "U+1F15D", "U+1F15E",
      "U+1F15F", "U+1F160", "U+1F161", "U+1F162", "U+1F163", "U+1F164",
      "U+1F165", "U+1F166", "U+1F167", "U+1F168", "U+1F169", "U+1F170",
      "U+1F171", "U+1F172", "U+1F173", "U+1F174", "U+1F175", "U+1F176",
      "U+1F177", "U+1F178", "U+1F179", "U+1F17A", "U+1F17B", "U+1F17C",
      "U+1F17D", "U+1F17E", "U+1F17F", "U+1F180", "U+1F181", "U+1F182",
      "U+1F183", "U+1F184", "U+1F185", "U+1F186", "U+1F187", "U+1F188",
      "U+1F189"
    }

CaseIgnorable ==
    {
      "'", ".", ":", "^", "U+0060", "¨", "­", "¯", "´", "·", "¸", "ʰ", "ʱ",
      "ʲ", "ʳ", "ʴ", "ʵ", "ʶ", "ʷ", "ʸ", "ʹ", "ʺ", "ʻ", "ʼ", "ʽ", "ʾ", "ʿ",
      "ˀ", "ˁ", "˂", "˃", "˄", "˅", "ˆ", "ˇ", "ˈ", "ˉ", "ˊ", "ˋ", "ˌ", "ˍ",
      "ˎ", "ˏ", "ː", "ˑ", "˒", "˓", "˔", "˕", "˖", "˗", "˘", "˙", "˚", "˛",
      "˜", "˝", "˞", "˟", "ˠ", "ˡ", "ˢ", "ˣ", "ˤ", "˥", "˦", "˧", "˨", "˩",
      "˪", "˫", "ˬ", "˭", "ˮ", "˯", "˰", "˱", "˲", "˳", "˴", "˵", "˶", "˷",
      "˸", "˹", "˺", "˻", "˼", "˽", "˾", "˿", "U+0300", "U+0301", "U+0302",
      "U+0303", "U+0304", "U+0305", "U+0306", "U+0307", "U+0308", "U+0309",
      "U+030A", "U+030B", "U+030C", "U+030D", "U+030E", "U+030F", "U+0310",
      "U+0311", "U+0312", "U+0313", "U+0314", "U+0315", "U+0316", "U+0317",
      "U+0318", "U+0319", "U+031A", "U+031B", "U+031C", "U+031D", "U+031E",
      "U+031F", "U+0320", "U+0321", "U+0322", "U+0323", "U+0324", "U+0325",
      "U+0326", "U+0327", "U+0328", "U+0329", "U+032A", "U+032B", "U+032C",
      "U+032D", "U+032E", "U+032F", "U+0330", "U+0331", "U+0332", "U+0333",
      "U+0334", "U+0335", "U+0336", "U+0337", "U+0338", "U+0339", "U+033A",
      "U+033B", "U+033C", "U+033D", "U+033E", "U+033F", "U+0340", "U+0341",
      "U+0342", "U+0343", "U+0344", "U+0345", "U+0346", "U+0347", "U+0348",
      "U+0349", "U+034A", "U+034B", "U+034C", "U+034D", "U+034E", "U+034F",
      "U+0350", "U+0351", "U+0352", "U+0353", "U+0354", "U+0355", "U+0356",
      "U+0357", "U+0358", "U+0359", "U+035A", "U+035B", "U+035C", "U+035D",
      "U+035E", "U+035F", "U+0360", "U+0361", "U+0362", "U+0363", "U+0364",
      "U+0365", "U+0366", "U+0367", "U+0368", "U+0369", "U+036A", "U+036B",
      "U+036C", "U+036D", "U+036E", "U+036F", "U+0374", "U+0375", "U+037A",
      "΄", "΅", "·", "҃", "҄", "҅", "҆", "҇", "҈", "҉", "U+0559", "U+055F",
      "֑", "֒", "֓", "֔", "֕", "֖", "֗", "֘", "֙", "֚", "֛", "֜", "֝", "֞",
      "֟", "֠", "֡", "֢", "֣", "֤", "֥", "֦", "֧", "֨", "֩", "֪", "֫", "֬",
      "֭", "֮", "֯", "ְ", "ֱ", "ֲ", "ֳ", "ִ", "ֵ", "ֶ", "ַ", "ָ", "ֹ", "ֺ",
      "ֻ", "ּ", "ֽ", "ֿ", "ׁ", "ׂ", "ׄ", "ׅ", "ׇ", "״", "U+0600", "U+0601",
      "U+0602", "U+0603", "U+0604", "U+0605", "U+0610", "U+0611", "U+0612",
      "U+0613", "U+0614", "U+0615", "U+0616", "U+0617", "U+0618", "U+0619",
      "U+061A", "U+061C", "U+0640", "U+064B", "U+064C", "U+064D", "U+064E",
      "U+064F", "U+0650", "U+0651", "U+0652", "U+0653", "U+0654", "U+0655",
      "U+0656", "U+0657", "U+0658", "U+0659", "U+065A", "U+065B", "U+065C",
      "U+065D", "U+065E", "U+065F", "U+0670", "ۖ", "ۗ", "ۘ", "ۙ", "ۚ", "ۛ",
      "ۜ", "۝", "۟", "۠", "ۡ", "ۢ", "ۣ", "ۤ", "ۥ", "ۦ", "ۧ", "ۨ", "۪", "۫",
      "۬", "ۭ", "U+070F", "U+0711", "U+0730", "U+0731", "U+0732", "U+0733",
      "U+0734", "U+0735", "U+0736", "U+0737", "U+0738", "U+0739", "U+073A",
      "U+073B", "U+073C", "U+073D", "U+073E", "U+073F", "U+0740", "U+0741",
      "U+0742", "U+0743", "U+0744", "U+0745", "U+0746", "U+0747", "U+0748",
      "U+0749", "U+074A", "ަ", "ާ", "ި", "ީ", "ު", "ޫ", "ެ", "ޭ", "ޮ", "ޯ",
      "ް", "߫", "߬", "߭", "߮", "߯", "߰", "߱", "߲", "߳", "ߴ", "ߵ", "ߺ", "߽",
      "U+0816", "U+0817", "U+0818", "U+0819", "U+081A", "U+081B", "U+081C",
      "U+081D", "U+081E", "U+081F", "U+0820", "U+0821", "U+0822", "U+0823",
      "U+0824", "U+0825", "U+0826", "U+0827", "U+0828", "U+0829", "U+082A",
      "U+082B", "U+082C", "U+082D", "U+0859", "U+085A", "U+085B", "࢈", "࢐",
      "࢑", "࢘", "࢙", "࢚", "࢛", "࢜", "࢝", "࢞", "࢟", "ࣉ", "࣊", "࣋", "࣌", "࣍",
      "࣎", "࣏", "࣐", "࣑", "࣒", "࣓", "ࣔ", "ࣕ", "ࣖ", "ࣗ", "ࣘ", "ࣙ", "ࣚ", "ࣛ",
      "ࣜ", "ࣝ", "ࣞ", "ࣟ", "࣠", "࣡", "࣢", "ࣣ", "ࣤ", "ࣥ", "ࣦ", "ࣧ", "ࣨ", "ࣩ",
      "࣪", "࣫", "࣬", "࣭", "࣮", "࣯", "ࣰ", "ࣱ", "ࣲ", "ࣳ", "ࣴ", "ࣵ", "ࣶ", "ࣷ",
      "ࣸ", "ࣹ", "ࣺ", "ࣻ", "ࣼ", "ࣽ", "ࣾ", "ࣿ", "U+0900", "U+0901", "U+0902",
      "U+093A", "U+093C", "U+0941", "U+0942", "U+0943", "U+0944", "U+0945",
      "U+0946", "U+0947", "U+0948", "U+094D", "U+0951", "U+0952", "U+0953",
      "U+0954", "U+0955", "U+0956", "U+0957", "U+0962", "U+0963", "U+0971",
      "ঁ", "়", "ু", "ূ", "ৃ", "ৄ", "্", "ৢ", "ৣ", "৾", "U+0A01", "U+0A02",
      "U+0A3C", "U+0A41", "U+0A42", "U+0A47", "U+0A48", "U+0A4B", "U+0A4C",
      "U+0A4D", "U+0A51", "U+0A70", "U+0A71", "U+0A75", "ઁ", "ં", "઼", "ુ",
      "ૂ", "ૃ", "ૄ", "ૅ", "ે", "ૈ", "્", "ૢ", "ૣ", "ૺ", "ૻ", "ૼ", "૽", "૾",
      "૿", "U+0B01", "U+0B3C", "U+0B3F", "U+0B41", "U+0B42", "U+0B43",
      "U+0B44", "U+0B4D", "U+0B55", "U+0B56", "U+0B62", "U+0B63", "ஂ", "ீ",
      "்", "U+0C00", "U+0C04", "U+0C3C", "U+0C3E", "U+0C3F", "U+0C40",
      "U+0C46", "U+0C47", "U+0C48", "U+0C4A", "U+0C4B", "U+0C4C", "U+0C4D",
      "U+0C55", "U+0C56", "U+0C62", "U+0C63", "ಁ", "಼", "ಿ", "ೆ", "ೌ", "್",
      "ೢ", "ೣ", "U+0D00", "U+0D01", "U+0D3B", "U+0D3C", "U+0D41", "U+0D42",
      "U+0D43", "U+0D44", "U+0D4D", "U+0D62", "U+0D63", "ඁ", "්", "ි", "ී",
      "ු", "ූ", "U+0E31", "U+0E34", "U+0E35", "U+0E36", "U+0E37", "U+0E38",
      "U+0E39", "U+0E3A", "U+0E46", "U+0E47", "U+0E48", "U+0E49", "U+0E4A",
      "U+0E4B", "U+0E4C", "U+0E4D", "U+0E4E", "ັ", "ິ", "ີ", "ຶ", "ື", "ຸ",
      "ູ", "຺", "ົ", "ຼ", "ໆ", "່", "້", "໊", "໋", "໌", "ໍ", "U+0F18",
      "U+0F19", "U+0F35", "U+0F37", "U+0F39", "U+0F71", "U+0F72", "U+0F73",
      "U+0F74", "U+0F75", "U+0F76", "U+0F77", "U+0F78", "U+0F79", "U+0F7A",
      "U+0F7B", "U+0F7C", "U+0F7D", "U+0F7E", "ྀ", "ཱྀ", "ྂ", "ྃ", "྄", "྆",
      "྇", "ྍ", "ྎ", "ྏ", "ྐ", "ྑ", "ྒ", "ྒྷ", "ྔ", "ྕ", "ྖ", "ྗ", "ྙ", "ྚ",
      "ྛ", "ྜ", "ྜྷ", "ྞ", "ྟ", "ྠ", "ྡ", "ྡྷ", "ྣ", "ྤ", "ྥ", "ྦ", "ྦྷ", "ྨ",
      "ྩ", "ྪ", "ྫ", "ྫྷ", "ྭ", "ྮ", "ྯ", "ྰ", "ྱ", "ྲ", "ླ", "ྴ", "ྵ", "ྶ",
      "ྷ", "ྸ", "ྐྵ", "ྺ", "ྻ", "ྼ", "࿆", "U+102D", "U+102E", "U+102F",
      "U+1030", "U+1032", "U+1033", "U+1034", "U+1035", "U+1036", "U+1037",
      "U+1039", "U+103A", "U+103D", "U+103E", "U+1058", "U+1059", "U+105E",
      "U+105F", "U+1060", "U+1071", "U+1072", "U+1073", "U+1074", "ႂ", "ႅ",
      "ႆ", "ႍ", "ႝ", "ჼ", "U+135D", "U+135E", "U+135F", "U+1712", "U+1713",
      "U+1714", "U+1732", "U+1733", "U+1752", "U+1753", "U+1772", "U+1773",
      "឴", "឵", "ិ", "ី", "ឹ", "ឺ", "ុ", "ូ", "ួ", "ំ", "៉", "៊", "់", "៌",
      "៍", "៎", "៏", "័", "៑", "្", "៓", "ៗ", "៝", "U+180B", "U+180C",
      "U+180D", "U+180E", "U+180F", "U+1843", "ᢅ", "ᢆ", "ᢩ", "U+1920",
      "U+1921", "U+1922", "U+1927", "U+1928", "U+1932", "U+1939", "U+193A",
      "U+193B", "U+1A17", "U+1A18", "U+1A1B", "U+1A56", "U+1A58", "U+1A59",
      "U+1A5A", "U+1A5B", "U+1A5C", "U+1A5D", "U+1A5E", "U+1A60", "U+1A62",
      "U+1A65", "U+1A66", "U+1A67", "U+1A68", "U+1A69", "U+1A6A", "U+1A6B",
      "U+1A6C", "U+1A73", "U+1A74", "U+1A75", "U+1A76", "U+1A77", "U+1A78",
      "U+1A79", "U+1A7A", "U+1A7B", "U+1A7C", "U+1A7F", "ᪧ", "᪰", "᪱", "᪲",
      "᪳", "᪴", "᪵", "᪶", "᪷", "᪸", "᪹", "᪺", "᪻", "᪼", "᪽", "᪾", "ᪿ", "ᫀ",
      "᫁", "᫂", "᫃", "᫄", "᫅", "᫆", "᫇", "᫈", "᫉", "᫊", "᫋", "ᫌ", "ᫍ", "ᫎ",
      "U+1B00", "U+1B01", "U+1B02", "U+1B03", "U+1B34", "U+1B36", "U+1B37",
      "U+1B38", "U+1B39", "U+1B3A", "U+1B3C", "U+1B42", "U+1B6B", "U+1B6C",
      "U+1B6D", "U+1B6E", "U+1B6F", "U+1B70", "U+1B71", "U+1B72", "U+1B73",
      "ᮀ", "ᮁ", "ᮢ", "ᮣ", "ᮤ", "ᮥ", "ᮨ", "ᮩ", "᮫", "ᮬ", "ᮭ", "᯦", "ᯨ", "ᯩ",
      "ᯭ", "ᯯ", "ᯰ", "ᯱ", "U+1C2C", "U+1C2D", "U+1C2E", "U+1C2F", "U+1C30",
      "U+1C31", "U+1C32", "U+1C33", "U+1C36", "U+1C37", "U+1C78", "U+1C79",
      "U+1C7A", "U+1C7B", "U+1C7C", "U+1C7D", "᳐", "᳑", "᳒", "᳔", "᳕", "᳖",
      "᳗", "᳘", "᳙", "᳚", "᳛", "᳜", "᳝", "᳞", "᳟", "᳠", "᳢", "᳣", "᳤", "᳥",
      "᳦", "᳧", "᳨", "᳭", "᳴", "᳸", "᳹", "U+1D2C", "U+1D2D", "U+1D2E",
      "U+1D2F", "U+1D30", "U+1D31", "U+1D32", "U+1D33", "U+1D34", "U+1D35",
      "U+1D36", "U+1D37", "U+1D38", "U+1D39", "U+1D3A", "U+1D3B", "U+1D3C",
      "U+1D3D", "U+1D3E", "U+1D3F", "U+1D40", "U+1D41", "U+1D42", "U+1D43",
      "U+1D44", "U+1D45", "U+1D46", "U+1D47", "U+1D48", "U+1D49", "U+1D4A",
      "U+1D4B", "U+1D4C", "U+1D4D", "U+1D4E", "U+1D4F", "U+1D50", "U+1D51",
      "U+1D52", "U+1D53", "U+1D54", "U+1D55", "U+1D56", "U+1D57", "U+1D58",
      "U+1D59", "U+1D5A", "U+1D5B", "U+1D5C", "U+1D5D", "U+1D5E", "U+1D5F",
      "U+1D60", "U+1D61", "U+1D62", "U+1D63", "U+1D64", "U+1D65", "U+1D66",
      "U+1D67", "U+1D68", "U+1D69", "U+1D6A", "U+1D78", "ᶛ", "ᶜ", "ᶝ", "ᶞ",
      "ᶟ", "ᶠ", "ᶡ", "ᶢ", "ᶣ", "ᶤ", "ᶥ", "ᶦ", "ᶧ", "ᶨ", "ᶩ", "ᶪ", "ᶫ", "ᶬ",
      "ᶭ", "ᶮ", "ᶯ", "ᶰ", "ᶱ", "ᶲ", "ᶳ", "ᶴ", "ᶵ", "ᶶ", "ᶷ", "ᶸ", "ᶹ", "ᶺ",
      "ᶻ", "ᶼ", "ᶽ", "ᶾ", "ᶿ", "᷀", "᷁", "᷂", "᷃", "᷄", "᷅", "᷆", "᷇", "᷈",
      "᷉", "᷊", "᷋", "᷌", "᷍", "᷎", "᷏", "᷐", "᷑", "᷒", "ᷓ", "ᷔ", "ᷕ", "ᷖ",
      "ᷗ", "ᷘ", "ᷙ", "ᷚ", "ᷛ", "ᷜ", "ᷝ", "ᷞ", "ᷟ", "ᷠ", "ᷡ", "ᷢ", "ᷣ", "ᷤ",
      "ᷥ", "ᷦ", "ᷧ", "ᷨ", "ᷩ", "ᷪ", "ᷫ", "ᷬ", "ᷭ", "ᷮ", "ᷯ", "ᷰ", "ᷱ", "ᷲ",
      "ᷳ", "ᷴ", "᷵", "᷶", "᷷", "᷸", "᷹", "᷺", "᷻", "᷼", "᷽", "᷾", "᷿", "᾽",
      "᾿", "῀", "῁", "῍", "῎", "῏", "῝", "῞", "῟", "῭", "΅", "`", "´", "῾",
      "U+200B", "U+200C", "U+200D", "U+200E", "U+200F", "U+2018", "U+2019",
      "U+2024", "U+2027", "U+202A", "U+202B", "U+202C", "U+202D", "U+202E",
      "U+2060", "U+2061", "U+2062", "U+2063", "U+2064", "U+2066", "U+2067",
      "U+2068", "U+2069", "U+206A", "U+206B", "U+206C", "U+206D", "U+206E",
      "U+206F", "U+2071", "U+207F", "ₐ", "ₑ", "ₒ", "ₓ", "ₔ", "ₕ", "ₖ", "ₗ",
      "ₘ", "ₙ", "ₚ", "ₛ", "ₜ", "⃐", "⃑", "⃒", "⃓", "⃔", "⃕", "⃖", "⃗", "⃘",
      "⃙", "⃚", "⃛", "⃜", "⃝", "⃞", "⃟", "⃠", "⃡", "⃢", "⃣", "⃤", "⃥", "⃦",
      "⃧", "⃨", "⃩", "⃪", "⃫", "⃬", "⃭", "⃮", "⃯", "⃰", "U+2C7C", "U+2C7D",
      "⳯", "⳰", "⳱", "U+2D6F", "U+2D7F", "ⷠ", "ⷡ", "ⷢ", "ⷣ", "ⷤ", "ⷥ", "ⷦ",
      "ⷧ", "ⷨ", "ⷩ", "ⷪ", "ⷫ", "ⷬ", "ⷭ", "ⷮ", "ⷯ", "ⷰ", "ⷱ", "ⷲ", "ⷳ", "ⷴ",
      "ⷵ", "ⷶ", "ⷷ", "ⷸ", "ⷹ", "ⷺ", "ⷻ", "ⷼ", "ⷽ", "ⷾ", "ⷿ", "U+2E2F",
      "U+3005", "U+302A", "U+302B", "U+302C", "U+302D", "U+3031", "U+3032",
      "U+3033", "U+3034", "U+3035", "U+303B", "゙", "゚", "゛", "゜", "ゝ", "ゞ",
      "ー", "ヽ", "ヾ", "U+A015", "ꓸ", "ꓹ", "ꓺ", "ꓻ", "ꓼ", "ꓽ", "U+A60C",
      "U+A66F", "U+A670", "U+A671", "U+A672", "U+A674", "U+A675", "U+A676",
      "U+A677", "U+A678", "U+A679", "U+A67A", "U+A67B", "U+A67C", "U+A67D",
      "U+A67F", "ꚜ", "ꚝ", "ꚞ", "ꚟ", "꛰", "꛱", "U+A700", "U+A701", "U+A702",
      "U+A703", "U+A704", "U+A705", "U+A706", "U+A707", "U+A708", "U+A709",
      "U+A70A", "U+A70B", "U+A70C", "U+A70D", "U+A70E", "U+A70F", "U+A710",
      "U+A711", "U+A712", "U+A713", "U+A714", "U+A715", "U+A716", "U+A717",
      "U+A718", "U+A719", "U+A71A", "U+A71B", "U+A71C", "U+A71D", "U+A71E",
      "U+A71F", "U+A720", "U+A721", "U+A770", "ꞈ", "꞉", "꞊", "ꟲ", "ꟳ", "ꟴ",
      "ꟸ", "ꟹ", "U+A802", "U+A806", "U+A80B", "U+A825", "U+A826", "U+A82C",
      "꣄", "ꣅ", "꣠", "꣡", "꣢", "꣣", "꣤", "꣥", "꣦", "꣧", "꣨", "꣩", "꣪", "꣫",
      "꣬", "꣭", "꣮", "꣯", "꣰", "꣱", "ꣿ", "U+A926", "U+A927", "U+A928",
      "U+A929", "U+A92A", "U+A92B", "U+A92C", "U+A92D", "U+A947", "U+A948",
      "U+A949", "U+A94A", "U+A94B", "U+A94C", "U+A94D", "U+A94E", "U+A94F",
      "U+A950", "U+A951", "ꦀ", "ꦁ", "ꦂ", "꦳", "ꦶ", "ꦷ", "ꦸ", "ꦹ", "ꦼ", "ꦽ",
      "ꧏ", "ꧥ", "ꧦ", "U+AA29", "U+AA2A", "U+AA2B", "U+AA2C", "U+AA2D",
      "U+AA2E", "U+AA31", "U+AA32", "U+AA35", "U+AA36", "U+AA43", "U+AA4C",
      "U+AA70", "U+AA7C", "ꪰ", "ꪲ", "ꪳ", "ꪴ", "ꪷ", "ꪸ", "ꪾ", "꪿", "꫁", "ꫝ",
      "ꫬ", "ꫭ", "ꫳ", "ꫴ", "꫶", "U+AB5B", "U+AB5C", "U+AB5D", "U+AB5E",
      "U+AB5F", "U+AB69", "U+AB6A", "U+AB6B", "ꯥ", "ꯨ", "꯭", "U+FB1E", "﮲",
      "﮳", "﮴", "﮵", "﮶", "﮷", "﮸", "﮹", "﮺", "﮻", "﮼", "﮽", "﮾", "﮿", "﯀",
      "﯁", "﯂", "U+FE00", "U+FE01", "U+FE02", "U+FE03", "U+FE04", "U+FE05",
      "U+FE06", "U+FE07", "U+FE08", "U+FE09", "U+FE0A", "U+FE0B", "U+FE0C",
      "U+FE0D", "U+FE0E", "U+FE0F", "U+FE13", "U+FE20", "U+FE21", "U+FE22",
      "U+FE23", "U+FE24", "U+FE25", "U+FE26", "U+FE27", "U+FE28", "U+FE29",
      "U+FE2A", "U+FE2B", "U+FE2C", "U+FE2D", "U+FE2E", "U+FE2F", "U+FE52",
      "U+FE55", "﻿", "U+FF07", "U+FF0E", "U+FF1A", "U+FF3E", "U+FF40",
      "U+FF70", "ﾞ", "ﾟ", "￣", "￹", "￺", "￻", "U+101FD", "U+102E0",
      "U+10376", "U+10377", "U+10378", "U+10379", "U+1037A", "U+10780",
      "U+10781", "U+10782", "U+10783", "U+10784", "U+10785", "U+10787",
      "U+10788", "U+10789", "U+1078A", "U+1078B", "U+1078C", "U+1078D",
      "U+1078E", "U+1078F", "U+10790", "U+10791", "U+10792", "U+10793",
      "U+10794", "U+10795", "U+10796", "U+10797", "U+10798", "U+10799",
      "U+1079A", "U+1079B", "U+1079C", "U+1079D", "U+1079E", "U+1079F",
      "U+107A0", "U+107A1", "U+107A2", "U+107A3", "U+107A4", "U+107A5",
      "U+107A6", "U+107A7", "U+107A8", "U+107A9", "U+107AA", "U+107AB",
      "U+107AC", "U+107AD", "U+107AE", "U+107AF", "U+107B0", "U+107B2",
      "U+107B3", "U+107B4", "U+107B5", "U+107B6", "U+107B7", "U+107B8",
      "U+107B9", "U+107BA", "U+10A01", "U+10A02", "U+10A03", "U+10A05",
      "U+10A06", "U+10A0C", "U+10A0D", "U+10A0E", "U+10A0F", "U+10A38",
      "U+10A39", "U+10A3A", "U+10A3F", "U+10AE5", "U+10AE6", "U+10D24",
      "U+10D25", "U+10D26", "U+10D27", "U+10EAB", "U+10EAC", "U+10F46",
      "U+10F47", "U+10F48", "U+10F49", "U+10F4A", "U+10F4B", "U+10F4C",
      "U+10F4D", "U+10F4E", "U+10F4F", "U+10F50", "U+10F82", "U+10F83",
      "U+10F84", "U+10F85", "U+11001", "U+11038", "U+11039", "U+1103A",
      "U+1103B", "U+1103C", "U+1103D", "U+1103E", "U+1103F", "U+11040",
      "U+11041", "U+11042", "U+11043", "U+11044", "U+11045", "U+11046",
      "U+11070", "U+11073", "U+11074", "U+1107F", "U+11080", "U+11081",
      "U+110B3", "U+110B4", "U+110B5", "U+110B6", "U+110B9", "U+110BA",
      "U+110BD", "U+110C2", "U+110CD", "U+11100", "U+11101", "U+11102",
      "U+11127", "U+11128", "U+11129", "U+1112A", "U+1112B", "U+1112D",
      "U+1112E", "U+1112F", "U+11130", "U+11131", "U+11132", "U+11133",
      "U+11134", "U+11173", "U+11180", "U+11181", "U+111B6", "U+111B7",
      "U+111B8", "U+111B9", "U+111BA", "U+111BB", "U+111BC", "U+111BD",
      "U+111BE", "U+111C9", "U+111CA", "U+111CB", "U+111CC", "U+111CF",
      "U+1122F", "U+11230", "U+11231", "U+11234", "U+11236", "U+11237",
      "U+1123E", "U+112DF", "U+112E3", "U+112E4", "U+112E5", "U+112E6",
      "U+112E7", "U+112E8", "U+112E9", "U+112EA", "U+11300", "U+11301",
      "U+1133B", "U+1133C", "U+11340", "U+11366", "U+11367", "U+11368",
      "U+11369", "U+1136A", "U+1136B", "U+1136C", "U+11370", "U+11371",
      "U+11372", "U+11373", "U+11374", "U+11438", "U+11439", "U+1143A",
      "U+1143B", "U+1143C", "U+1143D", "U+1143E", "U+1143F", "U+11442",
      "U+11443", "U+11444", "U+11446", "U+1145E", "U+114B3", "U+114B4",
      "U+114B5", "U+114B6", "U+114B7", "U+114B8", "U+114BA", "U+114BF",
      "U+114C0", "U+114C2", "U+114C3", "U+115B2", "U+115B3", "U+115B4",
      "U+115B5", "U+115BC", "U+115BD", "U+115BF", "U+115C0", "U+115DC",
      "U+115DD", "U+11633", "U+11634", "U+11635", "U+11636", "U+11637",
      "U+11638", "U+11639", "U+1163A", "U+1163D", "U+1163F", "U+11640",
      "U+116AB", "U+116AD", "U+116B0", "U+116B1", "U+116B2", "U+116B3",
      "U+116B4", "U+116B5", "U+116B7", "U+1171D", "U+1171E", "U+1171F",
      "U+11722", "U+11723", "U+11724", "U+11725", "U+11727", "U+11728",
      "U+11729", "U+1172A", "U+1172B", "U+1182F", "U+11830", "U+11831",
      "U+11832", "U+11833", "U+11834", "U+11835", "U+11836", "U+11837",
      "U+11839", "U+1183A", "U+1193B", "U+1193C", "U+1193E", "U+11943",
      "U+119D4", "U+119D5", "U+119D6", "U+119D7", "U+119DA", "U+119DB",
      "U+119E0", "U+11A01", "U+11A02", "U+11A03", "U+11A04", "U+11A05",
      "U+11A06", "U+11A07", "U+11A08", "U+11A09", "U+11A0A", "U+11A33",
      "U+11A34", "U+11A35", "U+11A36", "U+11A37", "U+11A38", "U+11A3B",
      "U+11A3C", "U+11A3D", "U+11A3E", "U+11A47", "U+11A51", "U+11A52",
      "U+11A53", "U+11A54", "U+11A55", "U+11A56", "U+11A59", "U+11A5A",
      "U+11A5B", "U+11A8A", "U+11A8B", "U+11A8C", "U+11A8D", "U+11A8E",
      "U+11A8F", "U+11A90", "U+11A91", "U+11A92", "U+11A93", "U+11A94",
      "U+11A95", "U+11A96", "U+11A98", "U+11A99", "U+11C30", "U+11C31",
      "U+11C32", "U+11C33", "U+11C34", "U+11C35", "U+11C36", "U+11C38",
      "U+11C39", "U+11C3A", "U+11C3B", "U+11C3C", "U+11C3D", "U+11C3F",
      "U+11C92", "U+11C93", "U+11C94", "U+11C95", "U+11C96", "U+11C97",
      "U+11C98", "U+11C99", "U+11C9A", "U+11C9B", "U+11C9C", "U+11C9D",
      "U+11C9E", "U+11C9F", "U+11CA0", "U+11CA1", "U+11CA2", "U+11CA3",
      "U+11CA4", "U+11CA5", "U+11CA6", "U+11CA7", "U+11CAA", "U+11CAB",
      "U+11CAC", "U+11CAD", "U+11CAE", "U+11CAF", "U+11CB0", "U+11CB2",
      "U+11CB3", "U+11CB5", "U+11CB6", "U+11D31", "U+11D32", "U+11D33",
      "U+11D34", "U+11D35", "U+11D36", "U+11D3A", "U+11D3C", "U+11D3D",
      "U+11D3F", "U+11D40", "U+11D41", "U+11D42", "U+11D43", "U+11D44",
      "U+11D45", "U+11D47", "U+11D90", "U+11D91", "U+11D95", "U+11D97",
      "U+11EF3", "U+11EF4", "U+13430", "U+13431", "U+13432", "U+13433",
      "U+13434", "U+13435", "U+13436", "U+13437", "U+13438", "U+16AF0",
      "U+16AF1", "U+16AF2", "U+16AF3", "U+16AF4", "U+16B30", "U+16B31",
      "U+16B32", "U+16B33", "U+16B34", "U+16B35", "U+16B36", "U+16B40",
      "U+16B41", "U+16B42", "U+16B43", "U+16F4F", "U+16F8F", "U+16F90",
      "U+16F91", "U+16F92", "U+16F93", "U+16F94", "U+16F95", "U+16F96",
      "U+16F97", "U+16F98", "U+16F99", "U+16F9A", "U+16F9B", "U+16F9C",
      "U+16F9D", "U+16F9E", "U+16F9F", "U+16FE0", "U+16FE1", "U+16FE3",
      "U+16FE4", "U+1AFF0", "U+1AFF1", "U+1AFF2", "U+1AFF3", "U+1AFF5",
      "U+1AFF6", "U+1AFF7", "U+1AFF8", "U+1AFF9", "U+1AFFA", "U+1AFFB",
      "U+1AFFD", "U+1AFFE", "U+1BC9D", "U+1BC9E", "U+1BCA0", "U+1BCA1",
      "U+1BCA2", "U+1BCA3", "U+1CF00", "U+1CF01", "U+1CF02", "U+1CF03",
      "U+1CF04", "U+1CF05", "U+1CF06", "U+1CF07", "U+1CF08", "U+1CF09",
      "U+1CF0A", "U+1CF0B", "U+1CF0C", "U+1CF0D", "U+1CF0E", "U+1CF0F",
      "U+1CF10", "U+1CF11", "U+1CF12", "U+1CF13", "U+1CF14", "U+1CF15",
      "U+1CF16", "U+1CF17", "U+1CF18", "U+1CF19", "U+1CF1A", "U+1CF1B",
      "U+1CF1C", "U+1CF1D", "U+1CF1E", "U+1CF1F", "U+1CF20", "U+1CF21",
      "U+1CF22", "U+1CF23", "U+1CF24", "U+1CF25", "U+1CF26", "U+1CF27",
      "U+1CF28", "U+1CF29", "U+1CF2A", "U+1CF2B", "U+1CF2C", "U+1CF2D",
      "U+1CF30", "U+1CF31", "U+1CF32", "U+1CF33", "U+1CF34", "U+1CF35",
      "U+1CF36", "U+1CF37", "U+1CF38", "U+1CF39", "U+1CF3A", "U+1CF3B",
      "U+1CF3C", "U+1CF3D", "U+1CF3E", "U+1CF3F", "U+1CF40", "U+1CF41",
      "U+1CF42", "U+1CF43", "U+1CF44", "U+1CF45", "U+1CF46", "U+1D167",
      "U+1D168", "U+1D169", "U+1D173", "U+1D174", "U+1D175", "U+1D176",
      "U+1D177", "U+1D178", "U+1D179", "U+1D17A", "U+1D17B", "U+1D17C",
      "U+1D17D", "U+1D17E", "U+1D17F", "U+1D180", "U+1D181", "U+1D182",
      "U+1D185", "U+1D186", "U+1D187", "U+1D188", "U+1D189", "U+1D18A",
      "U+1D18B", "U+1D1AA", "U+1D1AB", "U+1D1AC", "U+1D1AD", "U+1D242",
      "U+1D243", "U+1D244", "U+1DA00", "U+1DA01", "U+1DA02", "U+1DA03",
      "U+1DA04", "U+1DA05", "U+1DA06", "U+1DA07", "U+1DA08", "U+1DA09",
      "U+1DA0A", "U+1DA0B", "U+1DA0C", "U+1DA0D", "U+1DA0E", "U+1DA0F",
      "U+1DA10", "U+1DA11", "U+1DA12", "U+1DA13", "U+1DA14", "U+1DA15",
      "U+1DA16", "U+1DA17", "U+1DA18", "U+1DA19", "U+1DA1A", "U+1DA1B",
      "U+1DA1C", "U+1DA1D", "U+1DA1E", "U+1DA1F", "U+1DA20", "U+1DA21",
      "U+1DA22", "U+1DA23", "U+1DA24", "U+1DA25", "U+1DA26", "U+1DA27",
      "U+1DA28", "U+1DA29", "U+1DA2A", "U+1DA2B", "U+1DA2C", "U+1DA2D",
      "U+1DA2E", "U+1DA2F", "U+1DA30", "U+1DA31", "U+1DA32", "U+1DA33",
      "U+1DA34", "U+1DA35", "U+1DA36", "U+1DA3B", "U+1DA3C", "U+1DA3D",
      "U+1DA3E", "U+1DA3F", "U+1DA40", "U+1DA41", "U+1DA42", "U+1DA43",
      "U+1DA44", "U+1DA45", "U+1DA46", "U+1DA47", "U+1DA48", "U+1DA49",
      "U+1DA4A", "U+1DA4B", "U+1DA4C", "U+1DA4D", "U+1DA4E", "U+1DA4F",
      "U+1DA50", "U+1DA51", "U+1DA52", "U+1DA53", "U+1DA54", "U+1DA55",
      "U+1DA56", "U+1DA57", "U+1DA58", "U+1DA59", "U+1DA5A", "U+1DA5B",
      "U+1DA5C", "U+1DA5D", "U+1DA5E", "U+1DA5F", "U+1DA60", "U+1DA61",
      "U+1DA62", "U+1DA63", "U+1DA64", "U+1DA65", "U+1DA66", "U+1DA67",
      "U+1DA68", "U+1DA69", "U+1DA6A", "U+1DA6B", "U+1DA6C", "U+1DA75",
      "U+1DA84", "U+1DA9B", "U+1DA9C", "U+1DA9D", "U+1DA9E", "U+1DA9F",
      "U+1DAA1", "U+1DAA2", "U+1DAA3", "U+1DAA4", "U+1DAA5", "U+1DAA6",
      "U+1DAA7", "U+1DAA8", "U+1DAA9", "U+1DAAA", "U+1DAAB", "U+1DAAC",
      "U+1DAAD", "U+1DAAE", "U+1DAAF", "U+1E000", "U+1E001", "U+1E002",
      "U+1E003", "U+1E004", "U+1E005", "U+1E006", "U+1E008", "U+1E009",
      "U+1E00A", "U+1E00B", "U+1E00C", "U+1E00D", "U+1E00E", "U+1E00F",
      "U+1E010", "U+1E011", "U+1E012", "U+1E013", "U+1E014", "U+1E015",
      "U+1E016", "U+1E017", "U+1E018", "U+1E01B", "U+1E01C", "U+1E01D",
      "U+1E01E", "U+1E01F", "U+1E020", "U+1E021", "U+1E023", "U+1E024",
      "U+1E026", "U+1E027", "U+1E028", "U+1E029", "U+1E02A", "U+1E130",
      "U+1E131", "U+1E132", "U+1E133", "U+1E134", "U+1E135", "U+1E136",
      "U+1E137", "U+1E138", "U+1E139", "U+1E13A", "U+1E13B", "U+1E13C",
      "U+1E13D", "U+1E2AE", "U+1E2EC", "U+1E2ED", "U+1E2EE", "U+1E2EF",
      "U+1E8D0", "U+1E8D1", "U+1E8D2", "U+1E8D3", "U+1E8D4", "U+1E8D5",
      "U+1E8D6", "U+1E944", "U+1E945", "U+1E946", "U+1E947", "U+1E948",
      "U+1E949", "U+1E94A", "U+1E94B", "U+1F3FB", "U+1F3FC", "U+1F3FD",
      "U+1F3FE", "U+1F3FF", "U+E0001", "U+E0020", "U+E0021", "U+E0022",
      "U+E0023", "U+E0024", "U+E0025", "U+E0026", "U+E0027", "U+E0028",
      "U+E0029", "U+E002A", "U+E002B", "U+E002C", "U+E002D", "U+E002E",
      "U+E002F", "U+E0030", "U+E0031", "U+E0032", "U+E0033", "U+E0034",
      "U+E0035", "U+E0036", "U+E0037", "U+E0038", "U+E0039", "U+E003A",
      "U+E003B", "U+E003C", "U+E003D", "U+E003E", "U+E003F", "U+E0040",
      "U+E0041", "U+E0042", "U+E0043", "U+E0044", "U+E0045", "U+E0046",
      "U+E0047", "U+E0048", "U+E0049", "U+E004A", "U+E004B", "U+E004C",
      "U+E004D", "U+E004E", "U+E004F", "U+E0050", "U+E0051", "U+E0052",
      "U+E0053", "U+E0054", "U+E0055", "U+E0056", "U+E0057", "U+E0058",
      "U+E0059", "U+E005A", "U+E005B", "U+E005C", "U+E005D", "U+E005E",
      "U+E005F", "U+E0060", "U+E0061", "U+E0062", "U+E0063", "U+E0064",
      "U+E0065", "U+E0066", "U+E0067", "U+E0068", "U+E0069", "U+E006A",
      "U+E006B", "U+E006C", "U+E006D", "U+E006E", "U+E006F", "U+E0070",
      "U+E0071", "U+E0072", "U+E0073", "U+E0074", "U+E0075", "U+E0076",
      "U+E0077", "U+E0078", "U+E0079", "U+E007A", "U+E007B", "U+E007C",
      "U+E007D", "U+E007E", "U+E007F", "U+E0100", "U+E0101", "U+E0102",
      "U+E0103", "U+E0104", "U+E0105", "U+E0106", "U+E0107", "U+E0108",
      "U+E0109", "U+E010A", "U+E010B", "U+E010C", "U+E010D", "U+E010E",
      "U+E010F", "U+E0110", "U+E0111", "U+E0112", "U+E0113", "U+E0114",
      "U+E0115", "U+E0116", "U+E0117", "U+E0118", "U+E0119", "U+E011A",
      "U+E011B", "U+E011C", "U+E011D", "U+E011E", "U+E011F", "U+E0120",
      "U+E0121", "U+E0122", "U+E0123", "U+E0124", "U+E0125", "U+E0126",
      "U+E0127", "U+E0128", "U+E0129", "U+E012A", "U+E012B", "U+E012C",
      "U+E012D", "U+E012E", "U+E012F", "U+E0130", "U+E0131", "U+E0132",
      "U+E0133", "U+E0134", "U+E0135", "U+E0136", "U+E0137", "U+E0138",
      "U+E0139", "U+E013A", "U+E013B", "U+E013C", "U+E013D", "U+E013E",
      "U+E013F", "U+E0140", "U+E0141", "U+E0142", "U+E0143", "U+E0144",
      "U+E0145", "U+E0146", "U+E0147", "U+E0148", "U+E0149", "U+E014A",
      "U+E014B", "U+E014C", "U+E014D", "U+E014E", "U+E014F", "U+E0150",
      "U+E0151", "U+E0152", "U+E0153", "U+E0154", "U+E0155", "U+E0156",
      "U+E0157", "U+E0158", "U+E0159", "U+E015A", "U+E015B", "U+E015C",
      "U+E015D", "U+E015E", "U+E015F", "U+E0160", "U+E0161", "U+E0162",
      "U+E0163", "U+E0164", "U+E0165", "U+E0166", "U+E0167", "U+E0168",
      "U+E0169", "U+E016A", "U+E016B", "U+E016C", "U+E016D", "U+E016E",
      "U+E016F", "U+E0170", "U+E0171", "U+E0172", "U+E0173", "U+E0174",
      "U+E0175", "U+E0176", "U+E0177", "U+E0178", "U+E0179", "U+E017A",
      "U+E017B", "U+E017C", "U+E017D", "U+E017E", "U+E017F", "U+E0180",
      "U+E0181", "U+E0182", "U+E0183", "U+E0184", "U+E0185", "U+E0186",
      "U+E0187", "U+E0188", "U+E0189", "U+E018A", "U+E018B", "U+E018C",
      "U+E018D", "U+E018E", "U+E018F", "U+E0190", "U+E0191", "U+E0192",
      "U+E0193", "U+E0194", "U+E0195", "U+E0196", "U+E0197", "U+E0198",
      "U+E0199", "U+E019A", "U+E019B", "U+E019C", "U+E019D", "U+E019E",
      "U+E019F", "U+E01A0", "U+E01A1", "U+E01A2", "U+E01A3", "U+E01A4",
      "U+E01A5", "U+E01A6", "U+E01A7", "U+E01A8", "U+E01A9", "U+E01AA",
      "U+E01AB", "U+E01AC", "U+E01AD", "U+E01AE", "U+E01AF", "U+E01B0",
      "U+E01B1", "U+E01B2", "U+E01B3", "U+E01B4", "U+E01B5", "U+E01B6",
      "U+E01B7", "U+E01B8", "U+E01B9", "U+E01BA", "U+E01BB", "U+E01BC",
      "U+E01BD", "U+E01BE", "U+E01BF", "U+E01C0", "U+E01C1", "U+E01C2",
      "U+E01C3", "U+E01C4", "U+E01C5", "U+E01C6", "U+E01C7", "U+E01C8",
      "U+E01C9", "U+E01CA", "U+E01CB", "U+E01CC", "U+E01CD", "U+E01CE",
      "U+E01CF", "U+E01D0", "U+E01D1", "U+E01D2", "U+E01D3", "U+E01D4",
      "U+E01D5", "U+E01D6", "U+E01D7", "U+E01D8", "U+E01D9", "U+E01DA",
      "U+E01DB", "U+E01DC", "U+E01DD", "U+E01DE", "U+E01DF", "U+E01E0",
      "U+E01E1", "U+E01E2", "U+E01E3", "U+E01E4", "U+E01E5", "U+E01E6",
      "U+E01E7", "U+E01E8", "U+E01E9", "U+E01EA", "U+E01EB", "U+E01EC",
      "U+E01ED", "U+E01EE", "U+E01EF"
    }

\* The capital sigma at i ends a word: the nearest character before it
\* that is not case-ignorable is cased, and there is no cased character
\* after it before one that is neither cased nor case-ignorable.
FinalSigma(s, i) ==
    LET before == {j \in 1..(i - 1) : s[j] \notin CaseIgnorable}
        after == {j \in (i + 1)..Len(s) : s[j] \notin CaseIgnorable}
    IN /\ before # {}
       /\ s[CHOOSE j \in before : \A k \in before : k <= j] \in CasedLetters
       /\ \/ after = {}
          \/ s[CHOOSE j \in after : \A k \in after : j <= k] \notin CasedLetters

LowerAt(s, i) ==
    CASE s[i] = "Σ" -> IF FinalSigma(s, i) THEN <<"ς">> ELSE <<"σ">>
      [] s[i] = "U+0130" -> <<"i", "U+0307">>
      [] OTHER -> <<LowerChar(s[i])>>

RECURSIVE LowerFrom(_, _)
LowerFrom(s, i) ==
    IF i > Len(s) THEN <<>> ELSE LowerAt(s, i) \o LowerFrom(s, i + 1)

\* s.lower()
Lower(s) ==
    IF \A i \in 1..Len(s) : s[i] \notin {"Σ", "U+0130"}
    THEN [i \in 1..Len(s) |-> LowerChar(s[i])]
    ELSE LowerFrom(s, 1)

\* needle in hay
Contains(hay, needle) ==
    \E i \in 0..(Len(hay) - Len(needle)) :
        SubSeq(hay, i + 1, i + Len(needle)) = needle

completed == <<"c", "o", "m", "p", "l", "e", "t", "e", "d">>

(***************************************************************************)
(* Dashboard loaders.                                                      *)
(***************************************************************************)
Permute(s) ==
    {[i \in 1..Len(s) |-> s[p[i]]] : p \in Permutations(1..Len(s))}

\* ORDER BY run.START_TIME DESC: NULL sorts as the lowest value; the order
\* of rows with equal keys is not determined.
OrderedByStartDesc(s) ==
    \A i, j \in 1..Len(s) : i < j => ~DtLT(s[i].START_TIME, s[j].START_TIME)

MdmSince == Dt(2025, 1, 1, 0, 0, 0, 0)

\* df of load_mdm_data: the rows of the query.
mdm_query(table) ==
    LET Where(r) == /\ r.GroupName \in JobGroups
                    /\ ~IsNullDt(r.Start)
                    /\ DtLE(MdmSince, r.Start)
    IN SelectSeq(table, Where)

\* df[(df[col] >= start_time) & (df[col] <= end_time)] and Series.between:
\* a comparison with NaT is False.
\* Mutant: the upper bound is excluded.
Mut_InFrameWindow(x, lo, hi) == ~IsNullDt(x) /\ DtLE(lo, x) /\ DtLT(x, hi)
InFrameWindow(x, lo, hi) == ~IsNullDt(x) /\ DtLE(lo, x) /\ DtLE(x, hi)

ErrorPat == <<"e", "r", "r", "o", "r">>
Pat401 == <<"4", "0", "1">>
FailedPat == <<"f", "a", "i", "l", "e", "d">>

\* Message.str.contains("Error|401|Failed", case=False, na=False): a search
\* of the regular expression with re.IGNORECASE.  Character c matches
\* letter p of the pattern when p is the one-character lower case of c, or
\* when c is a lower-case letter with the upper case of p: "i" matches
\* i, I, U+0130 and U+0131, "s" matches s, S and U+017F.
MessageFailed(m) ==
    LET IgnoreCase(c, p) ==
            \/ c = p
            \/ c \in LowerDomain /\ LowerMap[c] = p
            \/ p = "i" /\ c \in {"U+0130", "U+0131"}
            \/ p = "s" /\ c = "U+017F"
        Search(pat) ==
            \E i \in 0..(Len(m) - Len(pat)) :
                \A k \in 1..Len(pat) : IgnoreCase(m[i + k], pat[k])
    IN /\ ~IsNullText(m)
       /\ Search(ErrorPat) \/ Search(Pat401) \/ Search(FailedPat)

MdmDashIdle ==
    [loaded |-> FALSE, df |-> <<>>, window |-> NoWindow, df_today |-> <<>>,
     total_jobs |-> 0, failed_jobs |-> 0]

mdm_dash_result(table, t) ==
    LET df == mdm_query(table)
        w == DashWindow(t)
        Today(r) == InFrameWindow(r.Start, w.start, w.end)
        df_today == SelectSeq(df, Today)
        Failed(r) == MessageFailed(r.Message)
    IN [loaded |-> TRUE, df |-> df, window |-> w, df_today |-> df_today,
        total_jobs |-> Len(df_today),
        failed_jobs |-> Len(SelectSeq(df_today, Failed))]

DashExcludedAreas == {SharedArea, MonitoringArea}

\* folder=None
NoFolder == NullText

\* if folder:
Truthy(folder) == folder # NoFolder /\ folder # <<>>

\* f"... = '{folder}'": the text of the query from the quote before
\* {folder} up to the end of its line.
PastedFolder(folder) == <<"'">> \o folder \o <<"'">>

CharAt(s, i) == IF i \in 1..Len(s) THEN s[i] ELSE ""

SqlSpaces == {" ", "\t", "\n", "\r", "\f"}
SqlDigits == {"0", "1", "2", "3", "4", "5", "6", "7", "8", "9"}
SqlUpper ==
    <<"A", "B", "C", "D", "E", "F", "G", "H", "I", "J", "K", "L", "M",
      "N", "O", "P", "Q", "R", "S", "T", "U", "V", "W", "X", "Y", "Z">>
SqlLower ==
    <<"a", "b", "c", "d", "e", "f", "g", "h", "i", "j", "k", "l", "m",
      "n", "o", "p", "q", "r", "s", "t", "u", "v", "w", "x", "y", "z">>
SqlWordChars ==
    {SqlUpper[k] : k \in 1..26} \cup {SqlLower[k] : k \in 1..26}
        \cup SqlDigits \cup {"_"}
SqlSymbols ==
    {",", "(", ")", ";", "<", ">", "!", "+", "-", "*", "/", "%", ".", "|",
     "&", "~"}
\* The characters a word or a number ends before.
SqlBreaks ==
    SqlSpaces \cup SqlSymbols \cup {"", "=", "'", "\"", "[", "U+0060"}

\* A letter of a word in lower case: the words of SQL are read in any case
\* of their letters.
SqlFold(c) ==
    IF \E k \in 1..26 : SqlUpper[k] = c
    THEN SqlLower[CHOOSE k \in 1..26 : SqlUpper[k] = c]
    ELSE c

\* The words with a meaning of their own in SQL (SQL Server, for which the
\* connection string is written, and SQLite).  A word that is none of them
\* is a name.
SqlKeywords ==
    {<<"a", "b", "o", "r", "t">>, <<"a", "c", "t", "i", "o", "n">>,
     <<"a", "d", "d">>, <<"a", "f", "t", "e", "r">>, <<"a", "l", "l">>,
     <<"a", "l", "t", "e", "r">>, <<"a", "l", "w", "a", "y", "s">>,
     <<"a", "n", "a", "l", "y", "z", "e">>, <<"a", "n", "d">>,
     <<"a", "n", "y">>, <<"a", "s">>, <<"a", "s", "c">>, <<"a", "t">>,
     <<"a", "t", "t", "a", "c", "h">>,
     <<"a", "u", "t", "h", "o", "r", "i", "z", "a", "t", "i", "o", "n">>,
     <<"a", "u", "t", "o", "i", "n", "c", "r", "e", "m", "e", "n", "t">>,
     <<"b", "a", "c", "k", "u", "p">>, <<"b", "e", "f", "o", "r", "e">>,
     <<"b", "e", "g", "i", "n">>, <<"b", "e", "t", "w", "e", "e", "n">>,
     <<"b", "r", "e", "a", "k">>, <<"b", "r", "o", "w", "s", "e">>,
     <<"b", "u", "l", "k">>, <<"b", "y">>, <<"c", "a", "l", "l">>,
     <<"c", "a", "s", "c", "a", "d", "e">>, <<"c", "a", "s", "e">>,
     <<"c", "a", "s", "t">>, <<"c", "a", "t", "c", "h">>,
     <<"c", "h", "e", "c", "k">>,
     <<"c", "h", "e", "c", "k", "p", "o", "i", "n", "t">>,
     <<"c", "l", "o", "s", "e">>,
     <<"c", "l", "u", "s", "t", "e", "r", "e", "d">>,
     <<"c", "o", "a", "l", "e", "s", "c", "e">>,
     <<"c", "o", "l", "l", "a", "t", "e">>, <<"c", "o", "l", "u", "m", "n">>,
     <<"c", "o", "m", "m", "i", "t">>, <<"c", "o", "m", "p", "u", "t", "e">>,
     <<"c", "o", "n", "f", "l", "i", "c", "t">>,
     <<"c", "o", "n", "s", "t", "r", "a", "i", "n", "t">>,
     <<"c", "o", "n", "t", "a", "i", "n", "s">>,
     <<"c", "o", "n", "t", "a", "i", "n", "s", "t", "a", "b", "l", "e">>,
     <<"c", "o", "n", "t", "i", "n", "u", "e">>,
     <<"c", "o", "n", "v", "e", "r", "t">>, <<"c", "r", "e", "a", "t", "e">>,
     <<"c", "r", "o", "s", "s">>, <<"c", "u", "r", "r", "e", "n", "t">>,
     <<"c", "u", "r", "r", "e", "n", "t", "_", "d", "a", "t", "e">>,
     <<"c", "u", "r", "r", "e", "n", "t", "_", "t", "i", "m", "e">>,
     <<"c", "u", "r", "r", "e", "n", "t", "_", "t", "i", "m", "e", "s", "t", "a", "m", "p">>,
     <<"c", "u", "r", "r", "e", "n", "t", "_", "u", "s", "e", "r">>,
     <<"c", "u", "r", "s", "o", "r">>,
     <<"d", "a", "t", "a", "b", "a", "s", "e">>, <<"d", "b", "c", "c">>,
     <<"d", "e", "a", "l", "l", "o", "c", "a", "t", "e">>,
     <<"d", "e", "c", "l", "a", "r", "e">>,
     <<"d", "e", "f", "a", "u", "l", "t">>,
     <<"d", "e", "f", "e", "r", "r", "a", "b", "l", "e">>,
     <<"d", "e", "f", "e", "r", "r", "e", "d">>,
     <<"d", "e", "l", "e", "t", "e">>, <<"d", "e", "n", "y">>,
     <<"d", "e", "s", "c">>, <<"d", "e", "t", "a", "c", "h">>,
     <<"d", "i", "s", "a", "b", "l", "e">>, <<"d", "i", "s", "k">>,
     <<"d", "i", "s", "t", "i", "n", "c", "t">>,
     <<"d", "i", "s", "t", "r", "i", "b", "u", "t", "e", "d">>,
     <<"d", "i", "v">>, <<"d", "o">>, <<"d", "o", "u", "b", "l", "e">>,
     <<"d", "r", "o", "p">>, <<"d", "u", "m", "p">>, <<"e", "a", "c", "h">>,
     <<"e", "l", "s", "e">>, <<"e", "n", "a", "b", "l", "e">>,
     <<"e", "n", "d">>, <<"e", "r", "r", "l", "v", "l">>,
     <<"e", "s", "c", "a", "p", "e">>, <<"e", "x", "c", "e", "p", "t">>,
     <<"e", "x", "c", "l", "u", "d", "e">>,
     <<"e", "x", "c", "l", "u", "s", "i", "v", "e">>, <<"e", "x", "e", "c">>,
     <<"e", "x", "e", "c", "u", "t", "e">>, <<"e", "x", "i", "s", "t", "s">>,
     <<"e", "x", "i", "t">>, <<"e", "x", "p", "l", "a", "i", "n">>,
     <<"e", "x", "t", "e", "r", "n", "a", "l">>, <<"f", "a", "i", "l">>,
     <<"f", "e", "t", "c", "h">>, <<"f", "i", "l", "e">>,
     <<"f", "i", "l", "l", "f", "a", "c", "t", "o", "r">>,
     <<"f", "i", "l", "t", "e", "r">>, <<"f", "i", "r", "s", "t">>,
     <<"f", "o", "l", "l", "o", "w", "i", "n", "g">>, <<"f", "o", "r">>,
     <<"f", "o", "r", "e", "i", "g", "n">>,
     <<"f", "r", "e", "e", "t", "e", "x", "t">>,
     <<"f", "r", "e", "e", "t", "e", "x", "t", "t", "a", "b", "l", "e">>,
     <<"f", "r", "o", "m">>, <<"f", "u", "l", "l">>,
     <<"f", "u", "n", "c", "t", "i", "o", "n">>,
     <<"g", "e", "n", "e", "r", "a", "t", "e", "d">>, <<"g", "e", "t">>,
     <<"g", "l", "o", "b">>, <<"g", "o">>, <<"g", "o", "t", "o">>,
     <<"g", "r", "a", "n", "t">>, <<"g", "r", "o", "u", "p">>,
     <<"g", "r", "o", "u", "p", "s">>, <<"h", "a", "v", "i", "n", "g">>,
     <<"h", "o", "l", "d", "l", "o", "c", "k">>,
     <<"i", "d", "e", "n", "t", "i", "t", "y">>,
     <<"i", "d", "e", "n", "t", "i", "t", "y", "_", "i", "n", "s", "e", "r", "t">>,
     <<"i", "d", "e", "n", "t", "i", "t", "y", "c", "o", "l">>, <<"i", "f">>,
     <<"i", "g", "n", "o", "r", "e">>, <<"i", "l", "i", "k", "e">>,
     <<"i", "m", "m", "e", "d", "i", "a", "t", "e">>, <<"i", "n">>,
     <<"i", "n", "d", "e", "x">>, <<"i", "n", "d", "e", "x", "e", "d">>,
     <<"i", "n", "i", "t", "i", "a", "l", "l", "y">>,
     <<"i", "n", "n", "e", "r">>, <<"i", "n", "s", "e", "r", "t">>,
     <<"i", "n", "s", "t", "e", "a", "d">>,
     <<"i", "n", "t", "e", "r", "s", "e", "c", "t">>, <<"i", "n", "t", "o">>,
     <<"i", "s">>, <<"i", "s", "n", "u", "l", "l">>, <<"j", "o", "i", "n">>,
     <<"k", "e", "y">>, <<"k", "i", "l", "l">>, <<"l", "a", "b", "e", "l">>,
     <<"l", "a", "s", "t">>, <<"l", "e", "f", "t">>, <<"l", "i", "k", "e">>,
     <<"l", "i", "m", "i", "t">>, <<"l", "i", "n", "e", "n", "o">>,
     <<"l", "o", "a", "d">>, <<"l", "o", "c", "k">>,
     <<"m", "a", "t", "c", "h">>,
     <<"m", "a", "t", "e", "r", "i", "a", "l", "i", "z", "e", "d">>,
     <<"m", "e", "r", "g", "e">>, <<"m", "i", "n", "u", "s">>,
     <<"m", "o", "d">>, <<"m", "o", "v", "e">>,
     <<"n", "a", "t", "i", "o", "n", "a", "l">>,
     <<"n", "a", "t", "u", "r", "a", "l">>, <<"n", "e", "x", "t">>,
     <<"n", "o">>, <<"n", "o", "c", "h", "e", "c", "k">>,
     <<"n", "o", "n", "c", "l", "u", "s", "t", "e", "r", "e", "d">>,
     <<"n", "o", "t">>, <<"n", "o", "t", "h", "i", "n", "g">>,
     <<"n", "o", "t", "n", "u", "l", "l">>, <<"n", "u", "l", "l">>,
     <<"n", "u", "l", "l", "i", "f">>, <<"n", "u", "l", "l", "s">>,
     <<"o", "f">>, <<"o", "f", "f">>, <<"o", "f", "f", "s", "e", "t">>,
     <<"o", "f", "f", "s", "e", "t", "s">>, <<"o", "n">>,
     <<"o", "n", "l", "y">>, <<"o", "p", "e", "n">>,
     <<"o", "p", "e", "n", "d", "a", "t", "a", "s", "o", "u", "r", "c", "e">>,
     <<"o", "p", "e", "n", "q", "u", "e", "r", "y">>,
     <<"o", "p", "e", "n", "r", "o", "w", "s", "e", "t">>,
     <<"o", "p", "e", "n", "x", "m", "l">>, <<"o", "p", "t", "i", "o", "n">>,
     <<"o", "r">>, <<"o", "r", "d", "e", "r">>,
     <<"o", "t", "h", "e", "r", "s">>, <<"o", "u", "t", "e", "r">>,
     <<"o", "v", "e", "r">>, <<"o", "v", "e", "r", "l", "a", "p", "s">>,
     <<"p", "a", "r", "t", "i", "t", "i", "o", "n">>,
     <<"p", "e", "r", "c", "e", "n", "t">>, <<"p", "i", "v", "o", "t">>,
     <<"p", "l", "a", "n">>, <<"p", "r", "a", "g", "m", "a">>,
     <<"p", "r", "e", "c", "e", "d", "i", "n", "g">>,
     <<"p", "r", "e", "c", "i", "s", "i", "o", "n">>,
     <<"p", "r", "i", "m", "a", "r", "y">>, <<"p", "r", "i", "n", "t">>,
     <<"p", "r", "o", "c">>, <<"p", "r", "o", "c", "e", "d", "u", "r", "e">>,
     <<"p", "u", "b", "l", "i", "c">>, <<"q", "u", "e", "r", "y">>,
     <<"r", "a", "i", "s", "e">>,
     <<"r", "a", "i", "s", "e", "r", "r", "o", "r">>,
     <<"r", "a", "n", "g", "e">>, <<"r", "e", "a", "d">>,
     <<"r", "e", "a", "d", "t", "e", "x", "t">>,
     <<"r", "e", "c", "e", "i", "v", "e">>,
     <<"r", "e", "c", "o", "n", "f", "i", "g", "u", "r", "e">>,
     <<"r", "e", "c", "u", "r", "s", "i", "v", "e">>,
     <<"r", "e", "f", "e", "r", "e", "n", "c", "e", "s">>,
     <<"r", "e", "g", "e", "x", "p">>, <<"r", "e", "i", "n", "d", "e", "x">>,
     <<"r", "e", "l", "e", "a", "s", "e">>, <<"r", "e", "n", "a", "m", "e">>,
     <<"r", "e", "p", "l", "a", "c", "e">>,
     <<"r", "e", "p", "l", "i", "c", "a", "t", "i", "o", "n">>,
     <<"r", "e", "s", "t", "o", "r", "e">>,
     <<"r", "e", "s", "t", "r", "i", "c", "t">>,
     <<"r", "e", "t", "u", "r", "n">>,
     <<"r", "e", "t", "u", "r", "n", "i", "n", "g">>,
     <<"r", "e", "v", "e", "r", "t">>, <<"r", "e", "v", "o", "k", "e">>,
     <<"r", "i", "g", "h", "t">>, <<"r", "l", "i", "k", "e">>,
     <<"r", "o", "l", "l", "b", "a", "c", "k">>, <<"r", "o", "w">>,
     <<"r", "o", "w", "c", "o", "u", "n", "t">>,
     <<"r", "o", "w", "g", "u", "i", "d", "c", "o", "l">>,
     <<"r", "o", "w", "s">>, <<"r", "u", "l", "e">>, <<"s", "a", "v", "e">>,
     <<"s", "a", "v", "e", "p", "o", "i", "n", "t">>,
     <<"s", "c", "h", "e", "m", "a">>,
     <<"s", "e", "c", "u", "r", "i", "t", "y", "a", "u", "d", "i", "t">>,
     <<"s", "e", "l", "e", "c", "t">>,
     <<"s", "e", "m", "a", "n", "t", "i", "c", "k", "e", "y", "p", "h", "r", "a", "s", "e", "t", "a", "b", "l", "e">>,
     <<"s", "e", "m", "a", "n", "t", "i", "c", "s", "i", "m", "i", "l", "a", "r", "i", "t", "y", "d", "e", "t", "a", "i", "l", "s", "t", "a", "b", "l", "e">>,
     <<"s", "e", "m", "a", "n", "t", "i", "c", "s", "i", "m", "i", "l", "a", "r", "i", "t", "y", "t", "a", "b", "l", "e">>,
     <<"s", "e", "n", "d">>,
     <<"s", "e", "s", "s", "i", "o", "n", "_", "u", "s", "e", "r">>,
     <<"s", "e", "t">>, <<"s", "e", "t", "u", "s", "e", "r">>,
     <<"s", "h", "u", "t", "d", "o", "w", "n">>,
     <<"s", "i", "m", "i", "l", "a", "r">>, <<"s", "o", "m", "e">>,
     <<"s", "o", "u", "n", "d", "s">>,
     <<"s", "t", "a", "t", "i", "s", "t", "i", "c", "s">>,
     <<"s", "y", "s", "t", "e", "m", "_", "u", "s", "e", "r">>,
     <<"t", "a", "b", "l", "e">>,
     <<"t", "a", "b", "l", "e", "s", "a", "m", "p", "l", "e">>,
     <<"t", "e", "m", "p">>, <<"t", "e", "m", "p", "o", "r", "a", "r", "y">>,
     <<"t", "e", "x", "t", "s", "i", "z", "e">>, <<"t", "h", "e", "n">>,
     <<"t", "h", "r", "o", "w">>, <<"t", "i", "e", "s">>, <<"t", "o">>,
     <<"t", "o", "p">>, <<"t", "r", "a", "n">>,
     <<"t", "r", "a", "n", "s", "a", "c", "t", "i", "o", "n">>,
     <<"t", "r", "i", "g", "g", "e", "r">>,
     <<"t", "r", "u", "n", "c", "a", "t", "e">>, <<"t", "r", "y">>,
     <<"t", "r", "y", "_", "c", "o", "n", "v", "e", "r", "t">>,
     <<"t", "s", "e", "q", "u", "a", "l">>,
     <<"u", "n", "b", "o", "u", "n", "d", "e", "d">>,
     <<"u", "n", "i", "o", "n">>, <<"u", "n", "i", "q", "u", "e">>,
     <<"u", "n", "p", "i", "v", "o", "t">>, <<"u", "p", "d", "a", "t", "e">>,
     <<"u", "p", "d", "a", "t", "e", "t", "e", "x", "t">>, <<"u", "s", "e">>,
     <<"u", "s", "e", "r">>, <<"u", "s", "i", "n", "g">>,
     <<"v", "a", "c", "u", "u", "m">>, <<"v", "a", "l", "u", "e", "s">>,
     <<"v", "a", "r", "y", "i", "n", "g">>, <<"v", "i", "e", "w">>,
     <<"v", "i", "r", "t", "u", "a", "l">>,
     <<"w", "a", "i", "t", "f", "o", "r">>, <<"w", "h", "e", "n">>,
     <<"w", "h", "e", "r", "e">>, <<"w", "h", "i", "l", "e">>,
     <<"w", "i", "n", "d", "o", "w">>, <<"w", "i", "t", "h">>,
     <<"w", "i", "t", "h", "i", "n">>, <<"w", "i", "t", "h", "o", "u", "t">>,
     <<"w", "r", "i", "t", "e", "t", "e", "x", "t">>, <<"x", "o", "r">>}
RECURSIVE SkipSpaces(_, _)
SkipSpaces(s, i) ==
    IF i <= Len(s) /\ s[i] \in SqlSpaces THEN SkipSpaces(s, i + 1) ELSE i

\* The closing quote q of the quoted text whose content begins at j (qq in
\* the content is one q), or 0 when the text does not end.
RECURSIVE QuotedEnd(_, _, _)
QuotedEnd(s, j, q) ==
    IF j > Len(s) THEN 0
    ELSE IF s[j] # q THEN QuotedEnd(s, j + 1, q)
    ELSE IF CharAt(s, j + 1) = q THEN QuotedEnd(s, j + 2, q)
    ELSE j

LiteralEnd(s, j) == QuotedEnd(s, j, "'")

\* The first c at or after j, or 0.
RECURSIVE FirstAt(_, _, _)
FirstAt(s, j, c) ==
    IF j > Len(s) THEN 0
    ELSE IF s[j] = c THEN j
    ELSE FirstAt(s, j + 1, c)

RECURSIVE Unescape(_, _, _)
Unescape(s, j, e) ==
    IF j > e THEN <<>>
    ELSE IF s[j] = "'" THEN <<"'">> \o Unescape(s, j + 2, e)
    ELSE <<s[j]>> \o Unescape(s, j + 1, e)

RECURSIVE DigitsEnd(_, _)
DigitsEnd(s, i) ==
    IF CharAt(s, i) \in SqlDigits THEN DigitsEnd(s, i + 1) ELSE i

RECURSIVE WordEnd(_, _)
WordEnd(s, i) ==
    IF CharAt(s, i) \in SqlWordChars THEN WordEnd(s, i + 1) ELSE i

RECURSIVE StripZeros(_)
StripZeros(d) ==
    IF Len(d) > 1 /\ Head(d) = "0" THEN StripZeros(Tail(d)) ELSE d

\* The end of a block comment whose content begins at j: the place of its
\* closing star, 0 when it does not end or holds another /*.
RECURSIVE BlockEnd(_, _)
BlockEnd(s, j) ==
    IF j >= Len(s) THEN 0
    ELSE IF s[j] = "/" /\ s[j + 1] = "*" THEN 0
    ELSE IF s[j] = "*" /\ s[j + 1] = "/" THEN j
    ELSE BlockEnd(s, j + 1)

OpenToken == [t |-> "open"]
UndetToken == [t |-> "undet"]

\* The word of SQL that begins at i, a character that is no space:
\*   lit    a string literal, with its value
\*   int    an unsigned integer, with its digits
\*   word   a keyword or a name, in lower case
\*   qid    a name between double quotes or brackets
\*   eq     =
\*   sym    another operator or punctuation
\*   open   a quoted text that does not end: every database refuses it
\*   undet  a text the databases do not read alike, or one outside the
\*          words above
ReadToken(s, i) ==
    IF s[i] = "'"
    THEN LET e == LiteralEnd(s, i + 1)
         IN IF e = 0 THEN OpenToken
            ELSE [t |-> "lit", v |-> Unescape(s, i + 1, e - 1),
                  next |-> e + 1]
    ELSE IF s[i] = "\""
    THEN LET e == QuotedEnd(s, i + 1, "\"")
         IN IF e = 0 THEN OpenToken ELSE [t |-> "qid", next |-> e + 1]
    ELSE IF s[i] = "["
    THEN LET e == FirstAt(s, i + 1, "]")
         IN IF e = 0 THEN OpenToken
            ELSE IF CharAt(s, e + 1) = "]" THEN UndetToken
            ELSE [t |-> "qid", next |-> e + 1]
    ELSE IF s[i] = "U+0060"
    THEN IF QuotedEnd(s, i + 1, "U+0060") = 0 THEN OpenToken
         ELSE UndetToken
    ELSE IF s[i] \in SqlDigits
    THEN LET e == DigitsEnd(s, i)
         IN IF CharAt(s, e) \notin SqlBreaks THEN UndetToken
            ELSE IF CharAt(s, e) = "." THEN UndetToken
            ELSE [t |-> "int", v |-> StripZeros(SubSeq(s, i, e - 1)),
                  next |-> e]
    ELSE IF s[i] \in SqlWordChars
    THEN LET e == WordEnd(s, i)
             w == [k \in 1..(e - i) |-> SqlFold(s[i + k - 1])]
         IN IF CharAt(s, e) \notin SqlBreaks THEN UndetToken
            ELSE IF CharAt(s, e) = "'" /\ w \in {<<"x">>, <<"n">>}
            THEN UndetToken
            ELSE [t |-> "word", v |-> w, next |-> e]
    ELSE IF s[i] = "=" THEN [t |-> "eq", next |-> i + 1]
    ELSE IF s[i] \in SqlSymbols THEN [t |-> "sym", v |-> s[i], next |-> i + 1]
    ELSE UndetToken

\* The words of the text from i on; a -- comment ends with its line, a
\* block comment is a space.  The reading stops at an open or undet word.
RECURSIVE Tokens(_, _)
Tokens(s, i) ==
    LET j == SkipSpaces(s, i)
    IN IF j > Len(s) THEN <<>>
       ELSE IF s[j] = "-" /\ CharAt(s, j + 1) = "-"
       THEN LET n == FirstAt(s, j, "\n")
            IN IF n = 0 THEN <<>> ELSE Tokens(s, n + 1)
       ELSE IF s[j] = "/" /\ CharAt(s, j + 1) = "*"
       THEN LET e == BlockEnd(s, j + 2)
            IN IF e = 0 THEN <<UndetToken>> ELSE Tokens(s, e + 2)
       ELSE LET tok == ReadToken(s, j)
            IN IF tok.t \in {"open", "undet"} THEN <<tok>>
               ELSE <<tok>> \o Tokens(s, tok.next)

\* A list of literals, integers and NULLs from k to the last word.
RECURSIVE ValueList(_, _)
ValueList(toks, k) ==
    /\ k <= Len(toks)
    /\ \/ toks[k].t \in {"lit", "int"}
       \/ toks[k].t = "word" /\ toks[k].v = <<"n", "u", "l", "l">>
    /\ \/ k = Len(toks)
       \/ /\ k < Len(toks)
          /\ toks[k + 1].t = "sym" /\ toks[k + 1].v = ","
          /\ ValueList(toks, k + 2)

\* UNION [ALL] SELECT and a list of values, at k.
UnionOfValues(toks, k) ==
    LET a == IF k < Len(toks) /\ toks[k + 1].t = "word"
                /\ toks[k + 1].v = <<"a", "l", "l">>
             THEN k + 2 ELSE k + 1
    IN /\ a <= Len(toks)
       /\ toks[a].t = "word"
       /\ toks[a].v = <<"s", "e", "l", "e", "c", "t">>
       /\ ValueList(toks, a + 1)

\* A comparison of two literals or of two integers at k.
Comparison(toks, k) ==
    /\ k + 2 <= Len(toks)
    /\ toks[k].t \in {"lit", "int"}
    /\ toks[k + 1].t = "eq"
    /\ toks[k + 2].t = toks[k].t

\* What follows the first literal, from word k on:
\*   nothing more: the condition is read ("where"; ops has the truth of
\*     each comparison with the word before it);
\*   OR/AND and a comparison of two literals or of two integers: on to the
\*     next word;
\*   OR/AND and nothing: refused;
\*   a literal, an integer or a name where an operator belongs: refused;
\*   UNION [ALL] SELECT and values only: refused, the two queries select
\*     ten and seven columns;
\*   anything else is not decided here ("other").
RECURSIVE ParseRest(_, _, _)
ParseRest(toks, k, ops) ==
    IF k > Len(toks) THEN [kind |-> "where", ops |-> ops]
    ELSE IF toks[k].t \in {"lit", "int", "qid"} THEN [kind |-> "raise"]
    ELSE IF toks[k].t # "word" THEN [kind |-> "other"]
    ELSE IF toks[k].v \in {<<"o", "r">>, <<"a", "n", "d">>}
    THEN IF k = Len(toks) THEN [kind |-> "raise"]
         ELSE IF Comparison(toks, k + 1)
         THEN ParseRest(toks, k + 4,
                        Append(ops, [conj |-> toks[k].v,
                                     truth |-> toks[k + 1].v = toks[k + 3].v]))
         ELSE [kind |-> "other"]
    ELSE IF toks[k].v = <<"u", "n", "i", "o", "n">>
    THEN IF UnionOfValues(toks, k) THEN [kind |-> "raise"]
         ELSE [kind |-> "other"]
    ELSE IF toks[k].v \in SqlKeywords THEN [kind |-> "other"]
    ELSE [kind |-> "raise"]

\* How the database reads the condition on the folder: "raise" when it
\* refuses the query, "where" with the literal SUBJECT_AREA is compared
\* with and the comparisons that follow it, "other" for a text this model
\* does not decide.  Texts are compared character by character.
ParseFolder(folder) ==
    LET toks == Tokens(PastedFolder(folder), 1)
        last == toks[Len(toks)]
        rest == ParseRest(toks, 2, <<>>)
    IN IF last.t = "open" THEN [kind |-> "raise"]
       ELSE IF last.t = "undet" \/ rest.kind = "other"
       THEN [kind |-> "other"]
       ELSE IF rest.kind = "raise" THEN [kind |-> "raise"]
       ELSE [kind |-> "where", first |-> toks[1].v, ops |-> rest.ops]

\* c AND t AND ... OR t ...: AND binds tighter than OR.
RECURSIVE EvalOps(_, _, _)
EvalOps(ops, k, cur) ==
    IF k > Len(ops) THEN cur
    ELSE IF ops[k].conj = <<"a", "n", "d">>
    THEN EvalOps(ops, k + 1, cur /\ ops[k].truth)
    ELSE cur \/ EvalOps(ops, k + 1, ops[k].truth)

\* The query raises: its text is not one the database can read.  A text
\* the model does not decide has no value here.
DashQueryRaises(folder) ==
    /\ Truthy(folder)
    /\ CASE ParseFolder(folder).kind = "raise" -> TRUE
         [] ParseFolder(folder).kind = "where" -> FALSE

\* WHERE ... NOT IN ('Shared', 'Monitoring') [AND ... = '{folder}'], for a
\* folder whose query the database reads.
DashWhere(area, folder) ==
    IF Truthy(folder)
    THEN LET p == ParseFolder(folder)
         IN EvalOps(p.ops, 1,
                    area \notin DashExcludedAreas /\ area = p.first)
    ELSE area \notin DashExcludedAreas

DashWfRow(r) ==
    [Folder |-> r.SUBJECT_AREA, Workflow |-> r.WORKFLOW_NAME,
     RunID |-> r.WORKFLOW_RUN_ID, START_TIME |-> r.START_TIME,
     Status |-> DashWfStatus(r.RUN_STATUS_CODE)]

DashSessRow(r) ==
    [Folder |-> r.SUBJECT_AREA, Workflow |-> r.WORKFLOW_NAME,
     RunID |-> r.WORKFLOW_RUN_ID, SessionName |-> r.SESSION_NAME,
     Status |-> DashSessStatus(r.RUN_STATUS_CODE),
     ActualStart |-> r.ACTUAL_START]

\* The possible df_wf of load_pc_data.
dash_wf_query(table, folder) ==
    LET Where(r) == DashWhere(r.SUBJECT_AREA, folder)
        sel == SelectSeq(table, Where)
    IN {s \in Permute([i \in 1..Len(sel) |-> DashWfRow(sel[i])]) :
            OrderedByStartDesc(s)}

dash_sess_query(table, folder) ==
    LET Where(r) == DashWhere(r.SUBJECT_AREA, folder)
        sel == SelectSeq(table, Where)
    IN [i \in 1..Len(sel) |-> DashSessRow(sel[i])]

PcDashIdle ==
    [loaded |-> FALSE, folder |-> NoFolder, df_wf |-> <<>>, df_sess |-> <<>>,
     window |-> NoWindow, df_today |-> <<>>, df_sess_today |-> <<>>,
     total_runs |-> 0, successes |-> 0, failures |-> 0,
     total_sessions |-> 0, failed_sessions |-> 0]

pc_dash_result(df_wf, df_sess, folder, t) ==
    LET w == DashWindow(t)
        WfToday(r) == InFrameWindow(r.START_TIME, w.start, w.end)
        SessToday(r) == InFrameWindow(r.ActualStart, w.start, w.end)
        df_today == SelectSeq(df_wf, WfToday)
        df_sess_today == SelectSeq(df_sess, SessToday)
        IsSucceeded(r) == r.Status = "Succeeded"
        IsFailed(r) == r.Status = "Failed"
    IN [loaded |-> TRUE, folder |-> folder, df_wf |-> df_wf,
        df_sess |-> df_sess, window |-> w, df_today |-> df_today,
        df_sess_today |-> df_sess_today,
        total_runs |-> Len(df_today),
        successes |-> Len(SelectSeq(df_today, IsSucceeded)),
        failures |-> Len(SelectSeq(df_today, IsFailed)),
        total_sessions |-> Len(df_sess_today),
        failed_sessions |-> Len(SelectSeq(df_sess_today, IsFailed))]

(***************************************************************************)
(* Formatting helpers.  A summary is kept as the values its text is built  *)
(* from, one entry per line of the text.                                   *)
(***************************************************************************)
GlyphOk == "U+2705"
GlyphFail == "U+274C"

CUSTOM_ORDER ==
    <<"Party", "Party Relationship", "Party Source ID", "Party Status",
      "Party Postal Address", "Postal Address", "Party Electronic Address",
      "Party Phone Communication", "STG_PARTY", "STG_PARTY_REL",
      "Staging Party Source ID", "STG_PARTY_STATUS", "STG_PARTY_POSTAL_ADD",
      "STG_POSTAL_ADD", "STG_PARTY_ETRC_ADD", "STG_PARTY_PH_COMM",
      "STG_PARTY_WD", "STG_PARTY_REL_WD", "S_PARTY_SOURCE_ID_WD",
      "STG_PARTY_STATUS_WD", "STG_PARTY_PSTL_ADD_WD", "STG_PSTL_ADD_WD",
      "STG_PARTY_ERTC_ADD_WD", "STG_PARTY_PH_COMM_WD", "STG_PARTY_AD",
      "STG_PARTY_REL_AD", "S_PARTY_SOURCE_ID_AD", "STG_PARTY_STATUS_AD",
      "STG_PARTY_PSTL_ADD_AD", "STG_PSTL_ADD_AD", "STG_PARTY_ETRC_ADD_AD",
      "STG_PARTY_PH_COMM_AD">>

NotCalled == [state |-> "none"]
Raised(e) == [state |-> "raised", error |-> e]

\* get_date_str(): month name, day of the month, year.
get_date_str(t) == <<t.month, t.day, t.year>>

\* '(glyph ok)' if up else '(glyph fail)'
env_status_icon(up) == IF up THEN GlyphOk ELSE GlyphFail

\* Mutant: only the status Failed gets the fail glyph.
Mut_wf_status_icon(s) == IF s = "Failed" THEN GlyphFail ELSE GlyphOk

\* '(glyph ok)' if s == 'Succeeded' else '(glyph fail)'
wf_status_icon(s) == IF s = "Succeeded" THEN GlyphOk ELSE GlyphFail

\* Mutant: only the status Failed counts as failed.
Mut_NotSucceeded(row) == row.Status = "Failed"
NotSucceeded(row) == row.Status # "Succeeded"

ServiceLine(e) == <<e.env, env_status_icon(e.up)>>
WfLine(row) == <<row.WORKFLOW_NAME, wf_status_icon(row.Status)>>
SessLine(row) == <<row.SESSION_NAME, wf_status_icon(row.Status)>>

format_pc_chat(service_status, wfs, sess, detailed, t) ==
    [state |-> "ok",
     date |-> get_date_str(t),
     env_lines |-> [i \in 1..Len(service_status) |-> ServiceLine(service_status[i])],
     failed_wf |-> Len(SelectSeq(wfs, NotSucceeded)),
     total_wf |-> Len(wfs),
     failed_sess |-> Len(SelectSeq(sess, NotSucceeded)),
     total_sess |-> Len(sess),
     detailed |-> detailed,
     wf_lines |-> IF detailed THEN [i \in 1..Len(wfs) |-> WfLine(wfs[i])] ELSE <<>>,
     sess_lines |-> IF detailed THEN [i \in 1..Len(sess) |-> SessLine(sess[i])] ELSE <<>>]

format_pc_summary(service_status, wfs, sess, t) ==
    [state |-> "ok",
     date |-> get_date_str(t),
     env_lines |-> [i \in 1..Len(service_status) |-> ServiceLine(service_status[i])],
     failed_wf |-> Len(SelectSeq(wfs, NotSucceeded)),
     total_wf |-> Len(wfs),
     failed_sess |-> Len(SelectSeq(sess, NotSucceeded)),
     total_sess |-> Len(sess),
     wf_lines |-> [i \in 1..Len(wfs) |-> WfLine(wfs[i])],
     sess_lines |-> [i \in 1..Len(sess) |-> SessLine(sess[i])]]

\* Mutant: the test is case-sensitive.
Mut_status_icon(s) == IF Contains(s, completed) THEN GlyphOk ELSE GlyphFail

\* status_icon = lambda s: ok glyph if 'completed' in s.lower() else fail glyph
status_icon(s) == IF Contains(Lower(s), completed) THEN GlyphOk ELSE GlyphFail

\* 'completed' not in row[4].lower()
JobNotCompleted(row) == ~Contains(Lower(row.Status), completed)

\* Mutant: an entry without a row gets the ok glyph.
Mut_status_dict_get(js, job, default) ==
    LET idx == {i \in 1..Len(js) : js[i].Display = job}
        last == CHOOSE i \in idx : \A k \in idx : k <= i
    IN IF idx = {} THEN GlyphOk ELSE status_icon(js[last].Status)

\* Mutant: the first row of a display name is kept, not the last.
Mut_first_status_dict_get(js, job, default) ==
    LET idx == {i \in 1..Len(js) : js[i].Display = job}
        first == CHOOSE i \in idx : \A k \in idx : i <= k
    IN IF idx = {} THEN default ELSE status_icon(js[first].Status)

\* status_dict.get(job, default) of
\* status_dict = {row[1]: status_icon(row[4]) for row in jobs}:
\* a later row of the same display name replaces an earlier one.
status_dict_get(js, job, default) ==
    LET idx == {i \in 1..Len(js) : js[i].Display = job}
        last == CHOOSE i \in idx : \A k \in idx : k <= i
    IN IF idx = {} THEN default ELSE status_icon(js[last].Status)

\* Mutant: the listing follows the fetched rows instead of CUSTOM_ORDER.
Mut_ordered_results(js) ==
    [i \in 1..Len(js) |-> <<js[i].Display, status_icon(js[i].Status)>>]

ordered_results(js) ==
    [k \in 1..Len(CUSTOM_ORDER) |->
        <<CUSTOM_ORDER[k], status_dict_get(js, CUSTOM_ORDER[k], GlyphFail)>>]

\* .lower() of a row whose status is None raises AttributeError.
HasNullStatus(js) == \E i \in 1..Len(js) : IsNullText(js[i].Status)

\* Mutant: the Enabled flag is not looked at.
Mut_BothPositive(d) == d.Status = GlyphOk
BothPositive(d) == d.Status = GlyphOk /\ d.Enabled = GlyphOk

\* ok = sum(1 for d in deployments if ...); fail = len(deployments) - ok
env_ok(rows) == Len(SelectSeq(rows, BothPositive))
env_fail(rows) == Len(rows) - env_ok(rows)

EnvLine(e) == [env |-> e.env, ok |-> env_ok(e.rows), fail |-> env_fail(e.rows)]
DeploymentLine(d) == <<d.Deployment, d.Status, d.Enabled>>
EnvTable(e) == [env |-> e.env, lines |-> [i \in 1..Len(e.rows) |-> DeploymentLine(e.rows[i])]]

format_mdm_chat(jboss_data, js, detailed, t) ==
    IF HasNullStatus(js) THEN Raised("AttributeError")
    ELSE [state |-> "ok",
          date |-> get_date_str(t),
          env_lines |-> [i \in 1..Len(jboss_data) |-> EnvLine(jboss_data[i])],
          failed |-> Len(SelectSeq(js, JobNotCompleted)),
          total |-> Len(js),
          detailed |-> detailed,
          env_tables |-> IF detailed THEN [i \in 1..Len(jboss_data) |-> EnvTable(jboss_data[i])]
                         ELSE <<>>,
          ordered_results |-> IF detailed THEN ordered_results(js) ELSE <<>>]

format_mdm_summary(jboss_data, js, t) ==
    IF HasNullStatus(js) THEN Raised("AttributeError")
    ELSE [state |-> "ok",
          date |-> get_date_str(t),
          env_lines |-> [i \in 1..Len(jboss_data) |-> EnvLine(jboss_data[i])],
          failed |-> Len(SelectSeq(js, JobNotCompleted)),
          total |-> Len(js),
          env_tables |-> [i \in 1..Len(jboss_data) |-> EnvTable(jboss_data[i])],
          ordered_results |-> ordered_results(js)]

(***************************************************************************)
(* check_mdm_apps: one step per HTTP request.  `data` is kept as the       *)
(* sequence of its items in insertion order.                               *)
(***************************************************************************)
MaxDeps == 2        \* deployments a listing names

ENVIRONMENTS == <<"SIT", "PRD">>
DeploymentNames == <<"siperian-mrm.ear", "entity360view.ear", "provisioning.war", "zds-gui.war">>

Sentinel == [Deployment |-> "N/A", Status |-> GlyphFail, Enabled |-> "Not Reachable"]

\* What the listing request can meet: the call raises (no connection,
\* timeout), a status other than 200, a body json() cannot use, or the
\* names of the deployments.
ListResponses ==
    {[kind |-> "raise"], [kind |-> "status", code |-> 500],
     [kind |-> "status", code |-> 401], [kind |-> "badjson"]}
    \cup {[kind |-> "ok", result |-> SubSeq(DeploymentNames, 1, k)] :
            k \in 0..MaxDeps}

\* What a read-resource request can meet.
StatusResponses ==
    {[kind |-> "raise"], [kind |-> "status", code |-> 500],
     [kind |-> "badjson"]}
    \cup {[kind |-> "ok", status |-> st, enabled |-> en] :
            st \in {"OK", "FAILED"}, en \in BOOLEAN}

DeploymentRow(dep, resp) ==
    [Deployment |-> dep,
     Status |-> IF resp.status = "OK" THEN GlyphOk ELSE GlyphFail,
     Enabled |-> IF resp.enabled THEN GlyphOk ELSE GlyphFail]

\* Mutant: an empty list of deployments is stored as it is.
Mut_RowsOrSentinel(deps) == deps

\* data[env] = deployments if deployments else [sentinel]
RowsOrSentinel(deps) == IF deps # <<>> THEN deps ELSE <<Sentinel>>

\* data[env] = [sentinel] of the non-200 branch and of the except branch
SentinelRows == <<Sentinel>>

DataItem(env, rows) == [env |-> env, rows |-> rows]

\* The answers drawn inside a monitoring cycle.
CycleListResponses ==
    {[kind |-> "raise"],
     [kind |-> "ok", result |-> SubSeq(DeploymentNames, 1, 1)]}
CycleStatusResponses == {[kind |-> "ok", status |-> "OK", enabled |-> TRUE]}

(***************************************************************************)
(* check_pc_service: one step per .bat file.  `status` is kept as the      *)
(* sequence of its items in insertion order.                               *)
(***************************************************************************)
BAT_FILES == <<"DEV", "SIT", "PRD">>

AliveText ==
    <<"I", "n", "t", "e", "g", "r", "a", "t", "i", "o", "n", " ", "S", "e",
      "r", "v", "i", "c", "e", " ", "i", "s", " ", "a", "l", "i", "v", "e">>
OutAlive ==
    <<"I", "N", "F", "O", ":", " ", "I", "n", "t", "e", "g", "r", "a", "t",
      "i", "o", "n", " ", "S", "e", "r", "v", "i", "c", "e", " ", "i", "s",
      " ", "a", "l", "i", "v", "e", ".">>
OutLower ==
    <<"i", "n", "t", "e", "g", "r", "a", "t", "i", "o", "n", " ", "s", "e",
      "r", "v", "i", "c", "e", " ", "i", "s", " ", "a", "l", "i", "v", "e">>
OutDown ==
    <<"E", "R", "R", "O", "R", ":", " ", "F", "a", "i", "l", "e", "d", " ",
      "t", "o", " ", "c", "o", "n", "n", "e", "c", "t">>
OutHead ==
    <<"I", "n", "t", "e", "g", "r", "a", "t", "i", "o", "n", " ", "S", "e",
      "r", "v", "i", "c", "e", " ">>
OutTail ==
    <<"i", "s", " ", "a", "l", "i", "v", "e">>

\* What subprocess.run of a .bat file can meet: the 30 s timeout expires,
\* the call raises (the command cannot be started), or the process ends
\* with a stdout and a stderr, either of which may be None.
ProbeOutcomes ==
    {[kind |-> "timeout"], [kind |-> "raise"]}
    \cup {[kind |-> "ran", stdout |-> p[1], stderr |-> p[2]] :
            p \in {<<OutAlive, <<>>>>, <<OutDown, OutAlive>>,
                   <<OutHead, OutTail>>, <<OutLower, <<>>>>,
                   <<OutDown, <<>>>>, <<NullText, NullText>>}}

\* The outcomes drawn inside a monitoring cycle.
CycleProbeOutcomes ==
    {[kind |-> "ran", stdout |-> OutAlive, stderr |-> <<>>]}

\* (x or "")
OrEmpty(x) == IF IsNullText(x) THEN <<>> ELSE x

\* Mutant: an environment whose probe timed out or raised is reported up.
Mut_ServiceUp(o) ==
    IF o.kind = "ran"
    THEN Contains(OrEmpty(o.stdout) \o OrEmpty(o.stderr), AliveText)
    ELSE TRUE

\* status[env] of one iteration: the `in` test on stdout + stderr, and
\* False in both except branches.
ServiceUp(o) ==
    IF o.kind = "ran"
    THEN Contains(OrEmpty(o.stdout) \o OrEmpty(o.stderr), AliveText)
    ELSE FALSE

SvcIdle == [pc |-> "idle", env |-> 1, met |-> <<>>]

(***************************************************************************)
(* monitor() and run_scheduler.                                            *)
(***************************************************************************)
MaxCycles == 2      \* monitor() runs the scheduler fires

\* Mutant: the detailed summaries are formatted and posted before the
\* chat summaries are sent.
Mut_MonitorSteps ==
    <<"check_pc_service", "check_mdm_apps",
      "get_recent_workflows_and_sessions", "get_recent_jobs",
      "format_pc_chat", "format_mdm_chat",
      "format_pc_summary", "format_mdm_summary", "send_pc_summary",
      "send_mdm_summary", "send_pc_chat", "send_mdm_chat">>

\* The calls of monitor(), in the order of its body.
MonitorSteps ==
    <<"check_pc_service", "check_mdm_apps",
      "get_recent_workflows_and_sessions", "get_recent_jobs",
      "format_pc_chat", "format_mdm_chat", "send_pc_chat", "send_mdm_chat",
      "format_pc_summary", "format_mdm_summary", "send_pc_summary",
      "send_mdm_summary">>

SendSteps ==
    {"send_pc_chat", "send_mdm_chat", "send_pc_summary", "send_mdm_summary"}

\* The statement after a call of monitor(); after the last one monitor()
\* returns to run_pending.
StepAfter(step) ==
    LET i == CHOOSE k \in 1..Len(MonitorSteps) : MonitorSteps[k] = step
    IN IF i = Len(MonitorSteps) THEN "return" ELSE MonitorSteps[i + 1]

\* mpc = "free": the operation is called on its own, outside monitor().
At(step) == mpc \in {"free", step}
Returned(step) == IF mpc = "free" THEN "free" ELSE StepAfter(step)

NoError == [cycle |-> 0, by |-> "none", error |-> "none"]

\* The exceptions the calls raise; all of them derive from Exception.
ExceptionClasses ==
    {"pyodbc.Error", "pandas.errors.DatabaseError", "AttributeError",
     "requests.ConnectionError"}

\* Mutant: the handler of monitor() is `except AttributeError`.
Mut_Caught(e) == e = "AttributeError"

\* except Exception as e
Caught(e) == e \in ExceptionClasses

\* The call returns and monitor() goes on.
Ok(step) ==
    /\ mpc' = Returned(step)
    /\ UNCHANGED <<error, log>>

\* The call raises e: inside monitor() the handler prints a line and
\* monitor() returns; an exception the handler does not catch leaves
\* run_pending and the loop of run_scheduler.
Raise(step, e) ==
    /\ error' = [cycle |-> cycle, by |-> step, error |-> e]
    /\ mpc' = IF mpc = "free" THEN "free"
              ELSE IF Caught(e) THEN "return" ELSE "crashed"
    /\ log' = IF mpc # "free" /\ Caught(e)
              THEN Append(log, [line |-> "Error during monitoring", of |-> e])
              ELSE log

ScheduleHour == 6

NextDay(t) ==
    IF t.day < DaysInMonth(t.year, t.month) THEN [t EXCEPT !.day = t.day + 1]
    ELSE IF t.month < 12 THEN [t EXCEPT !.month = t.month + 1, !.day = 1]
         ELSE [t EXCEPT !.year = t.year + 1, !.month = 1, !.day = 1]

\* every().day.at("06:00"): the first 06:00 after the reading t.
NextRun(t) ==
    IF DtLT(t, Combine(Midnight(t), ScheduleHour, 0))
    THEN Combine(Midnight(t), ScheduleHour, 0)
    ELSE Combine(NextDay(Midnight(t)), ScheduleHour, 0)

\* The clock when the queries of a fetch of monitor() have been answered:
\* they take no time, or they last until the day has changed (no timeout
\* is set on the connection).
Elapsed(t) == IF mpc = "free" THEN {t} ELSE {t, Midnight(NextDay(t))}

(***************************************************************************)
(* Database connections and send_to_teams.                                 *)
(***************************************************************************)
Fetches ==
    {"get_recent_workflows_and_sessions", "get_recent_jobs",
     "load_mdm_data", "load_pc_data"}

NoConns == [f \in Fetches |-> 0]

\* What a fetch can meet: every call succeeds, the connect call raises,
\* or a query (cursor.execute, pd.read_sql) raises on the open connection.
DbOutcomes == {"ok", "connect", "execute"}

connect(c, f) == [c EXCEPT ![f] = @ + 1]
close(c, f) == [c EXCEPT ![f] = @ - 1]

\* The exception that leaves a dashboard loader: pyodbc.connect raises the
\* error of the driver; pd.read_sql on a pyodbc connection raises every
\* failure of the query again as pandas.errors.DatabaseError.
ReadSqlError(o) ==
    IF o = "connect" THEN "pyodbc.Error" ELSE "pandas.errors.DatabaseError"

\* The connections of fetch f after it returned or raised: conn.close()
\* is the statement after the queries and is not reached when one raises.
FetchConns(c, f, o) ==
    CASE o = "connect" -> c
      [] o = "execute" -> connect(c, f)
      [] OTHER -> close(connect(c, f), f)

None == "None"

\* What requests.post to a webhook can meet.
PostResponses ==
    {[kind |-> "status", code |-> 200], [kind |-> "status", code |-> 500],
     [kind |-> "raise"]}

\* send_to_teams has no return statement and no handler around the post.
send_to_teams(resp) ==
    IF resp.kind = "raise" THEN Raised("requests.ConnectionError")
    ELSE [state |-> "ok", value |-> None]

WEBHOOK_CHAT == "WEBHOOK_CHAT"
WEBHOOK_POST == "WEBHOOK_POST"

\* The arguments of the four send_to_teams calls of monitor().
SendWebhook(step) ==
    IF step \in {"send_pc_chat", "send_mdm_chat"} THEN WEBHOOK_CHAT
    ELSE WEBHOOK_POST
SendMessage(step) ==
    CASE step = "send_pc_chat" -> "pc_chat"
      [] step = "send_mdm_chat" -> "mdm_chat"
      [] step = "send_pc_summary" -> "pc_summary"
      [] OTHER -> "mdm_summary"

AgainIdle ==
    [f \in {"format_pc_chat", "format_pc_summary", "format_mdm_chat",
            "format_mdm_summary"} |-> NotCalled]

(***************************************************************************)
(* Operations.                                                             *)
(***************************************************************************)
\* check_pc_service: status = {} and the first iteration of the loop begins.
check_pc_service_begin ==
    /\ proc = "notifier"
    /\ At("check_pc_service")
    /\ svc.pc = "idle"
    /\ pc_service' = <<>>
    /\ svc' = [pc |-> "loop", env |-> 1, met |-> <<>>]
    /\ UNCHANGED <<proc, usageVars, callVars, now, dbVars, fetchVars, dashVars, appVars, outVars,
                   mpc, schedVars, sent, log, error, conns, again>>

\* One iteration: the .bat file of the environment is run and status[env]
\* is set; after the last one the function returns status.
check_pc_service_probe ==
    /\ svc.pc = "loop"
    /\ \E o \in IF mpc = "free" THEN ProbeOutcomes ELSE CycleProbeOutcomes :
         LET last == svc.env = Len(BAT_FILES)
         IN /\ pc_service' = Append(pc_service,
                                    [env |-> BAT_FILES[svc.env],
                                     up |-> ServiceUp(o)])
            /\ svc' = [pc |-> IF last THEN "returned" ELSE "loop",
                       env |-> svc.env + 1,
                       met |-> Append(svc.met, o)]
            /\ mpc' = IF last THEN Returned("check_pc_service") ELSE mpc
            /\ log' = CASE o.kind = "timeout" ->
                              Append(log, [line |-> "Timeout",
                                           env |-> BAT_FILES[svc.env]])
                         [] o.kind = "raise" ->
                              Append(log, [line |-> "Error",
                                           env |-> BAT_FILES[svc.env]])
                         [] OTHER -> log
    /\ UNCHANGED <<proc, usageVars, callVars, now, dbVars, fetchVars, dashVars, appVars, outVars,
                   schedVars, sent, error, conns, again>>

get_recent_workflows_and_sessions ==
    /\ proc = "notifier"
    /\ At("get_recent_workflows_and_sessions")
    /\ mpc = "free" => error = NoError
    /\ wf_window = NoWindow
    /\ \E o \in DbOutcomes :
         /\ conns' = FetchConns(conns, "get_recent_workflows_and_sessions", o)
         /\ IF o = "ok"
            THEN LET w == NotifierWindow(now)
                 IN /\ wf_window' = w
                    /\ workflows' = wf_query(REP_WFLOW_RUN, w.start, w.end)
                    /\ sessions' = sess_query(REP_SESS_LOG, w.start, w.end)
                    /\ now' \in Elapsed(now)
                    /\ Ok("get_recent_workflows_and_sessions")
            ELSE /\ UNCHANGED <<now, wf_window, workflows, sessions>>
                 /\ Raise("get_recent_workflows_and_sessions", "pyodbc.Error")
    /\ UNCHANGED <<proc, usageVars, callVars, dbVars, jobs, jobs_window, dashVars,
                   pc_service, appVars, outVars, svc, schedVars, sent, again>>

get_recent_jobs ==
    /\ proc = "notifier"
    /\ At("get_recent_jobs")
    /\ mpc = "free" => error = NoError
    /\ jobs_window = NoWindow
    /\ \E o \in DbOutcomes :
         /\ conns' = FetchConns(conns, "get_recent_jobs", o)
         /\ IF o = "ok"
            THEN LET w == NotifierWindow(now)
                 IN /\ jobs_window' = w
                    /\ jobs' = jobs_query(JOB_VIEW, w.start, w.end)
                    /\ Ok("get_recent_jobs")
            ELSE /\ UNCHANGED <<jobs_window, jobs>>
                 /\ Raise("get_recent_jobs", "pyodbc.Error")
    /\ UNCHANGED <<proc, usageVars, callVars, now, dbVars, workflows, sessions, wf_window,
                   dashVars, pc_service, appVars, outVars, svc, schedVars,
                   sent, again>>

load_mdm_data ==
    /\ proc = "mdm_dash"
    /\ mpc = "free" /\ error = NoError
    /\ ~mdm_dash.loaded
    /\ \E o \in DbOutcomes :
         /\ conns' = FetchConns(conns, "load_mdm_data", o)
         /\ IF o = "ok"
            THEN /\ mdm_dash' = mdm_dash_result(JOB_VIEW, now)
                 /\ Ok("load_mdm_data")
            ELSE /\ UNCHANGED mdm_dash
                 /\ Raise("load_mdm_data", ReadSqlError(o))
    /\ UNCHANGED <<proc, usageVars, callVars, now, dbVars, fetchVars, pc_dash, pc_service,
                   appVars, outVars, svc, schedVars, sent, again>>

\* The values of the dropdown the callback can be called with: none, the
\* name of a folder, a name with a quote in it, and a text that closes the
\* literal and adds a comparison.
FolderWithQuote == <<"O", "'", "B", "r", "i", "e", "n">>
FolderInjected ==
    <<"x", "'", " ", "O", "R", " ", "'", "1", "'", "=", "'", "1">>
Folders ==
    {NoFolder, NotifierWfArea, NotifierSessArea, FolderWithQuote,
     FolderInjected}

load_pc_data ==
    /\ proc = "pc_dash"
    /\ mpc = "free" /\ error = NoError
    /\ ~pc_dash.loaded
    /\ \E folder \in Folders :
       \E o \in {d \in DbOutcomes : DashQueryRaises(folder) => d # "ok"} :
         /\ conns' = FetchConns(conns, "load_pc_data", o)
         /\ IF o = "ok"
            THEN /\ \E df_wf \in dash_wf_query(REP_WFLOW_RUN, folder) :
                      pc_dash' =
                        pc_dash_result(df_wf,
                                       dash_sess_query(REP_SESS_LOG, folder),
                                       folder, now)
                 /\ Ok("load_pc_data")
            ELSE /\ UNCHANGED pc_dash
                 /\ Raise("load_pc_data", ReadSqlError(o))
    /\ UNCHANGED <<proc, usageVars, callVars, now, dbVars, fetchVars, mdm_dash, pc_service,
                   appVars, outVars, svc, schedVars, sent, again>>

\* monitor() calls the chat formatters with detailed left at its default.
DetailedArgs == IF mpc = "free" THEN BOOLEAN ELSE {FALSE}

\* The formatter returned r or raised.
Formatted(step, r) ==
    IF r.state = "raised" THEN Raise(step, r.error) ELSE Ok(step)

do_format_pc_chat ==
    /\ proc = "notifier"
    /\ At("format_pc_chat")
    /\ pc_chat = NotCalled
    /\ \E detailed \in DetailedArgs :
         /\ pc_chat' = format_pc_chat(pc_service, workflows, sessions,
                                      detailed, now)
         /\ Formatted("format_pc_chat", pc_chat')
    /\ UNCHANGED <<proc, usageVars, callVars, now, dbVars, fetchVars, dashVars, pc_service,
                   appVars, mdm_chat, pc_summary, mdm_summary, svc,
                   schedVars, sent, conns, again>>

do_format_pc_summary ==
    /\ proc = "notifier"
    /\ At("format_pc_summary")
    /\ pc_summary = NotCalled
    /\ pc_summary' = format_pc_summary(pc_service, workflows, sessions, now)
    /\ Formatted("format_pc_summary", pc_summary')
    /\ UNCHANGED <<proc, usageVars, callVars, now, dbVars, fetchVars, dashVars, pc_service,
                   appVars, pc_chat, mdm_chat, mdm_summary, svc, schedVars,
                   sent, conns, again>>

do_format_mdm_chat ==
    /\ proc = "notifier"
    /\ At("format_mdm_chat")
    /\ appPc = "returned"
    /\ mdm_chat = NotCalled
    /\ \E detailed \in DetailedArgs :
         /\ mdm_chat' = format_mdm_chat(mdm_apps, jobs, detailed, now)
         /\ Formatted("format_mdm_chat", mdm_chat')
    /\ UNCHANGED <<proc, usageVars, callVars, now, dbVars, fetchVars, dashVars, pc_service,
                   appVars, pc_chat, pc_summary, mdm_summary, svc, schedVars,
                   sent, conns, again>>

do_format_mdm_summary ==
    /\ proc = "notifier"
    /\ At("format_mdm_summary")
    /\ appPc = "returned"
    /\ mdm_summary = NotCalled
    /\ mdm_summary' = format_mdm_summary(mdm_apps, jobs, now)
    /\ Formatted("format_mdm_summary", mdm_summary')
    /\ UNCHANGED <<proc, usageVars, callVars, now, dbVars, fetchVars, dashVars, pc_service,
                   appVars, pc_chat, mdm_chat, pc_summary, svc, schedVars,
                   sent, conns, again>>

\* check_mdm_apps: data = {} and the first iteration of the loop begins.
check_mdm_apps_begin ==
    /\ proc = "notifier"
    /\ At("check_mdm_apps")
    /\ appPc = "idle"
    /\ mdm_apps' = <<>>
    /\ appEnv' = 1
    /\ deployments' = <<>>
    /\ pending' = <<>>
    /\ appPc' = "list"
    /\ UNCHANGED <<proc, usageVars, callVars, now, dbVars, fetchVars, dashVars, pc_service,
                   probe, outVars, svc, mpc, schedVars, sent, log, error,
                   conns, again>>

\* The lines check_mdm_apps prints for an environment: after an answer
\* other than 200 to the listing request, and in the except branch.
HttpLine(code) ==
    <<[line |-> "returned HTTP", env |-> ENVIRONMENTS[appEnv], of |-> code]>>
ErrorLine == <<[line |-> "error", env |-> ENVIRONMENTS[appEnv]]>>

\* data[env] = rows after the lines were printed, and the loop goes to the
\* next environment or returns.
FinishEnv(rows, met, lines) ==
    /\ log' = log \o lines
    /\ mdm_apps' = Append(mdm_apps, DataItem(ENVIRONMENTS[appEnv], rows))
    /\ probe' = [probe EXCEPT ![ENVIRONMENTS[appEnv]] = met]
    /\ deployments' = <<>>
    /\ pending' = <<>>
    /\ appEnv' = appEnv + 1
    /\ appPc' = IF appEnv = Len(ENVIRONMENTS) THEN "returned" ELSE "list"
    /\ mpc' = IF appEnv = Len(ENVIRONMENTS) THEN Returned("check_mdm_apps")
              ELSE mpc

\* The listing request of one environment and what follows it up to the
\* next request.
check_mdm_apps_list ==
    /\ appPc = "list"
    /\ \E resp \in IF mpc = "free" THEN ListResponses ELSE CycleListResponses :
         CASE resp.kind = "raise" ->
                FinishEnv(SentinelRows, "raised", ErrorLine)
           [] resp.kind = "status" ->
                FinishEnv(SentinelRows, "non200", HttpLine(resp.code))
           [] resp.kind = "badjson" ->
                FinishEnv(SentinelRows, "raised", ErrorLine)
           [] resp.kind = "ok" /\ resp.result = <<>> ->
                FinishEnv(RowsOrSentinel(<<>>), "norows", <<>>)
           [] OTHER ->
                /\ pending' = resp.result
                /\ deployments' = <<>>
                /\ appPc' = "status"
                /\ UNCHANGED <<mdm_apps, appEnv, probe, mpc, log>>
    /\ UNCHANGED <<proc, usageVars, callVars, now, dbVars, fetchVars, dashVars, pc_service, outVars,
                   svc, schedVars, sent, error, conns, again>>

\* The read-resource request of one deployment and what follows it.
check_mdm_apps_status ==
    /\ appPc = "status"
    /\ \E resp \in IF mpc = "free" THEN StatusResponses
                   ELSE CycleStatusResponses :
         LET dep == Head(pending)
             deps == IF resp.kind = "ok"
                     THEN Append(deployments, DeploymentRow(dep, resp))
                     ELSE deployments
         IN CASE resp.kind \in {"raise", "badjson"} ->
                   FinishEnv(SentinelRows, "raised", ErrorLine)
              [] resp.kind \notin {"raise", "badjson"} /\ Tail(pending) = <<>> ->
                   FinishEnv(RowsOrSentinel(deps),
                             IF deps = <<>> THEN "norows" ELSE "rows", <<>>)
              [] OTHER ->
                   /\ pending' = Tail(pending)
                   /\ deployments' = deps
                   /\ UNCHANGED <<mdm_apps, appEnv, appPc, probe, mpc, log>>
    /\ UNCHANGED <<proc, usageVars, callVars, now, dbVars, fetchVars, dashVars, pc_service, outVars,
                   svc, schedVars, sent, error, conns, again>>

\* One send_to_teams call of monitor(): the post, and the line printed
\* when the answer is not 200.
do_send_to_teams ==
    /\ mpc \in SendSteps
    /\ \E resp \in PostResponses :
         LET r == send_to_teams(resp)
         IN /\ sent' = Append(sent, [webhook |-> SendWebhook(mpc),
                                     message |-> SendMessage(mpc),
                                     met |-> resp, result |-> r])
            /\ IF r.state = "raised" THEN Raise(mpc, r.error)
               ELSE /\ mpc' = Returned(mpc)
                    /\ log' = IF resp.code # 200
                              THEN Append(log, [line |-> "Teams post failed",
                                                of |-> resp.code])
                              ELSE log
                    /\ UNCHANGED error
    /\ UNCHANGED <<proc, usageVars, callVars, now, dbVars, fetchVars, dashVars, pc_service,
                   appVars, outVars, svc, schedVars, conns, again>>

\* run_pending: the job is due and monitor() is called; its locals are
\* those of a new call, and of an exception of an earlier run only the
\* number of that run is kept.
run_pending ==
    /\ mpc = "sleeping"
    /\ ~DtLT(now, next_run)
    /\ cycle' = cycle + 1
    /\ mpc' = MonitorSteps[1]
    /\ pc_service' = <<>> /\ svc' = SvcIdle
    /\ mdm_apps' = <<>> /\ appPc' = "idle" /\ appEnv' = 1
    /\ deployments' = <<>> /\ pending' = <<>>
    /\ probe' = [e \in DOMAIN probe |-> "none"]
    /\ workflows' = <<>> /\ sessions' = <<>> /\ wf_window' = NoWindow
    /\ jobs' = <<>> /\ jobs_window' = NoWindow
    /\ pc_chat' = NotCalled /\ mdm_chat' = NotCalled
    /\ pc_summary' = NotCalled /\ mdm_summary' = NotCalled
    /\ sent' = <<>> /\ log' = <<>>
    /\ error' = [error EXCEPT !.by = "none", !.error = "none"]
    /\ UNCHANGED <<proc, usageVars, callVars, now, dbVars, dashVars, next_run, conns, again>>

\* monitor() returned to run_pending, which sets the next run of the job.
monitor_returns ==
    /\ mpc = "return"
    /\ next_run' = NextRun(now)
    /\ mpc' = "sleeping"
    /\ UNCHANGED <<proc, usageVars, callVars, now, dbVars, fetchVars, dashVars, pc_service,
                   appVars, outVars, svc, cycle, sent, log, error, conns,
                   again>>

\* The loop of run_scheduler sleeps until the job is due.
time_sleep ==
    /\ mpc = "sleeping"
    /\ DtLT(now, next_run)
    /\ cycle < MaxCycles
    /\ now' = next_run
    /\ UNCHANGED <<proc, usageVars, callVars, dbVars, fetchVars, dashVars, pc_service, appVars,
                   outVars, svc, mpc, schedVars, sent, log, error, conns,
                   again>>

(***************************************************************************)
(* A formatter called twice, statement by statement.  The lists and the    *)
(* dicts of a call are the objects of `heap`, each known by its index: a   *)
(* list is the sequence of its items, a dict the sequence of its items in  *)
(* insertion order, which is the order .items() yields them in.  The       *)
(* arguments are the caller's objects; a name of the call holds the index  *)
(* of an object, or a number or a text itself.  A comprehension and a      *)
(* literal [] make a new object, append changes the object its name        *)
(* refers to.  print and the lambda definitions are no steps.              *)
(***************************************************************************)
NoFrame == [pc |-> 0]
NoCall == heap = <<>> /\ frame = NoFrame

\* The objects the caller passes: service_status, workflows, sessions,
\* jboss_data, jobs, and the list of deployments of each item of jboss_data.
ArgRefs ==
    [service_status |-> 1, workflows |-> 2, sessions |-> 3, jboss_data |-> 4,
     jobs |-> 5]
ArgHeap(service_status, wfs, sess, jboss_data, js) ==
    <<service_status, wfs, sess,
      [i \in 1..Len(jboss_data) |->
          [env |-> jboss_data[i].env, ref |-> 5 + i]],
      js>>
        \o [i \in 1..Len(jboss_data) |-> jboss_data[i].rows]

\* The names a call assigns to, before their assignment.
NoNames ==
    [failed_wf |-> 0, failed_sess |-> 0, wf_lines |-> 0, sess_lines |-> 0,
     service_lines |-> <<>>, status_dict |-> 0, ordered_results |-> 0,
     total |-> 0, failed |-> 0, env_lines |-> 0, env_tables |-> 0,
     it |-> 0, lines |-> 0, current_date |-> <<>>, summary |-> NotCalled]

\* The statements of a formatter in the order of its text.  "for_env" is
\* one pass of `for env, deployments in jboss_data.items()`; total and
\* failed of format_mdm_summary are one step, and so is the loop that
\* fills its ordered_results.
Statements(f, detailed) ==
    CASE f = "format_pc_chat" ->
           <<"failed_wf", "failed_sess", "service_lines", "pc_chat_summary">>
             \o (IF detailed
                 THEN <<"wf_lines", "sess_lines", "pc_chat_detail">>
                 ELSE <<>>)
             \o <<"return">>
      [] f = "format_pc_summary" ->
           <<"failed_wf", "failed_sess", "wf_lines", "sess_lines",
             "service_lines", "current_date", "pc_summary", "return">>
      [] f = "format_mdm_chat" ->
           <<"status_dict", "ordered_results", "total_failed", "env_init",
             "for_env", "mdm_chat_summary">>
             \o (IF detailed THEN <<"mdm_chat_detail">> ELSE <<>>)
             \o <<"return">>
      [] OTHER ->
           <<"status_dict", "ordered_results", "total_failed", "env_init",
             "for_env", "current_date", "mdm_summary", "return">>

\* The statements that read the clock.
ReadsClock(label) ==
    label \in {"pc_chat_summary", "mdm_chat_summary", "current_date"}

\* Mutant: the list is rewritten in place.
Mut_ComprehensionTarget(h, src) == src

\* name = [... for x in src ...]: the object the name is bound to is a new
\* one.
ComprehensionTarget(h, src) == Len(h) + 1

\* The heap after the object `target` has got the value.
Bind(h, target, value) ==
    IF target = Len(h) + 1 THEN Append(h, value)
    ELSE [h EXCEPT ![target] = value]

\* name.append(x), name referring to object id.
ListAppend(h, id, x) == [h EXCEPT ![id] = Append(@, x)]

\* d[k] = v
DictSet(d, k, v) ==
    IF \E i \in 1..Len(d) : d[i].key = k
    THEN [i \in 1..Len(d) |->
            IF d[i].key = k THEN [key |-> k, value |-> v] ELSE d[i]]
    ELSE Append(d, [key |-> k, value |-> v])

\* d.get(k, default)
DictGet(d, k, default) ==
    IF \E i \in 1..Len(d) : d[i].key = k
    THEN d[CHOOSE i \in 1..Len(d) : d[i].key = k].value
    ELSE default

\* {row[1]: status_icon(row[4]) for row in rows}, begun with d.
RECURSIVE StatusDict(_, _)
StatusDict(rows, d) ==
    IF rows = <<>> THEN d
    ELSE StatusDict(Tail(rows),
                    DictSet(d, Head(rows).Display,
                            status_icon(Head(rows).Status)))

\* format_mdm_summary has no `detailed`: it always builds the tables.
BuildsTables(fr) == fr.f = "format_mdm_summary" \/ fr.detailed

\* The statement raises: status_icon(row[4]) of a row whose status is None.
Raises(label, h, fr) ==
    label = "status_dict" /\ HasNullStatus(h[fr.args.jobs])

\* The heap and the names after the statement, executed at the clock
\* reading t.
Exec(label, h, fr, t) ==
    LET a == fr.args
        n == fr.names
        new == Len(h) + 1
        Comprehension(name, src, value) ==
            LET target == ComprehensionTarget(h, src)
            IN [heap |-> Bind(h, target, value),
                names |-> [n EXCEPT ![name] = target]]
        Names(m) == [heap |-> h, names |-> m]
    IN CASE label = "failed_wf" ->
              Comprehension("failed_wf", a.workflows,
                            SelectSeq(h[a.workflows], NotSucceeded))
         [] label = "failed_sess" ->
              Comprehension("failed_sess", a.sessions,
                            SelectSeq(h[a.sessions], NotSucceeded))
         [] label = "wf_lines" ->
              Comprehension("wf_lines", a.workflows,
                            [i \in 1..Len(h[a.workflows]) |->
                                WfLine(h[a.workflows][i])])
         [] label = "sess_lines" ->
              Comprehension("sess_lines", a.sessions,
                            [i \in 1..Len(h[a.sessions]) |->
                                SessLine(h[a.sessions][i])])
         [] label = "service_lines" ->
              Names([n EXCEPT !.service_lines =
                        [i \in 1..Len(h[a.service_status]) |->
                            ServiceLine(h[a.service_status][i])]])
         [] label = "current_date" ->
              Names([n EXCEPT !.current_date = get_date_str(t)])
         [] label = "pc_chat_summary" ->
              Names([n EXCEPT !.summary =
                        [state |-> "ok",
                         date |-> get_date_str(t),
                         env_lines |-> n.service_lines,
                         failed_wf |-> Len(h[n.failed_wf]),
                         total_wf |-> Len(h[a.workflows]),
                         failed_sess |-> Len(h[n.failed_sess]),
                         total_sess |-> Len(h[a.sessions]),
                         detailed |-> fr.detailed,
                         wf_lines |-> <<>>,
                         sess_lines |-> <<>>]])
         [] label = "pc_chat_detail" ->
              Names([n EXCEPT !.summary.wf_lines = h[n.wf_lines],
                              !.summary.sess_lines = h[n.sess_lines]])
         [] label = "pc_summary" ->
              Names([n EXCEPT !.summary =
                        [state |-> "ok",
                         date |-> n.current_date,
                         env_lines |-> n.service_lines,
                         failed_wf |-> Len(h[n.failed_wf]),
                         total_wf |-> Len(h[a.workflows]),
                         failed_sess |-> Len(h[n.failed_sess]),
                         total_sess |-> Len(h[a.sessions]),
                         wf_lines |-> h[n.wf_lines],
                         sess_lines |-> h[n.sess_lines]]])
         [] label = "status_dict" ->
              [heap |-> Append(h, StatusDict(h[a.jobs], <<>>)),
               names |-> [n EXCEPT !.status_dict = new]]
         [] label = "ordered_results" ->
              [heap |-> Append(h, [k \in 1..Len(CUSTOM_ORDER) |->
                                     <<CUSTOM_ORDER[k],
                                       DictGet(h[n.status_dict],
                                               CUSTOM_ORDER[k], GlyphFail)>>]),
               names |-> [n EXCEPT !.ordered_results = new]]
         [] label = "total_failed" ->
              Names([n EXCEPT !.total = Len(h[a.jobs]),
                              !.failed = Len(SelectSeq(h[a.jobs],
                                                       JobNotCompleted))])
         [] label = "env_init" ->
              [heap |-> h \o << <<>>, <<>> >>,
               names |-> [n EXCEPT !.env_lines = new, !.env_tables = new + 1]]
         [] label = "for_env" ->
              IF n.it = Len(h[a.jboss_data]) THEN Names(n)
              ELSE LET item == h[a.jboss_data][n.it + 1]   \* env, deployments
                       deps == item.ref
                       h1 == ListAppend(h, n.env_lines,
                                        EnvLine([env |-> item.env,
                                                 rows |-> h[deps]]))
                       lines == ComprehensionTarget(h1, deps)
                       h2 == Bind(h1, lines,
                                  [i \in 1..Len(h1[deps]) |->
                                      DeploymentLine(h1[deps][i])])
                       h3 == ListAppend(h2, n.env_tables,
                                        [env |-> item.env,
                                         lines |-> h2[lines]])
                   IN IF BuildsTables(fr)
                      THEN [heap |-> h3,
                            names |-> [n EXCEPT !.it = @ + 1,
                                                !.lines = lines]]
                      ELSE [heap |-> h1, names |-> [n EXCEPT !.it = @ + 1]]
         [] label = "mdm_chat_summary" ->
              Names([n EXCEPT !.summary =
                        [state |-> "ok",
                         date |-> get_date_str(t),
                         env_lines |-> h[n.env_lines],
                         failed |-> n.failed,
                         total |-> n.total,
                         detailed |-> fr.detailed,
                         env_tables |-> <<>>,
                         ordered_results |-> <<>>]])
         [] label = "mdm_chat_detail" ->
              Names([n EXCEPT
                        !.summary.env_tables = h[n.env_tables],
                        !.summary.ordered_results = h[n.ordered_results]])
         [] label = "mdm_summary" ->
              Names([n EXCEPT !.summary =
                        [state |-> "ok",
                         date |-> n.current_date,
                         env_lines |-> h[n.env_lines],
                         failed |-> n.failed,
                         total |-> n.total,
                         env_tables |-> h[n.env_tables],
                         ordered_results |-> h[n.ordered_results]]])

\* The results of the calls once the call of frame fr has ended with the
\* result: the first call of a formatter, or its second.
CallEnds(fr, result) ==
    [again EXCEPT ![fr.f] =
        IF @.state = "none"
        THEN [state |-> "once", detailed |-> fr.detailed,
              at1 |-> fr.at, first |-> result]
        ELSE [state |-> "called", detailed |-> fr.detailed,
              at1 |-> @.at1, first |-> @.first,
              at2 |-> fr.at, second |-> result]]

\* The clock readings of a second call made after a first one at t.
ClockAfter(t) ==
    {t, [t EXCEPT !.hour = 23, !.minute = 59], NextRun(t)}

\* A formatter is called with the caller's objects: once, and when that
\* call has ended once more, with the same arguments, at a later reading of
\* the clock.
fmt_call ==
    /\ proc = "notifier"
    /\ mpc = "free"
    /\ frame = NoFrame
    /\ \E f \in DOMAIN again, detailed \in BOOLEAN :
         /\ f \in {"format_pc_summary", "format_mdm_summary"} => detailed
         /\ \/ /\ again = AgainIdle
               /\ now' = now
            \/ /\ again[f].state = "once"
               /\ again[f].detailed = detailed
               /\ now' \in ClockAfter(now)
         /\ frame' = [pc |-> 1, f |-> f, detailed |-> detailed,
                      args |-> ArgRefs, names |-> NoNames, at |-> NullDt]
    /\ UNCHANGED <<proc, usageVars, heap, dbVars, fetchVars, dashVars,
                   pc_service, appVars, outVars, svc, mpc, schedVars, sent,
                   log, error, conns, again>>

\* The next statement of the call is executed; a statement that raises
\* ends the call.
fmt_exec ==
    /\ frame # NoFrame
    /\ LET label == Statements(frame.f, frame.detailed)[frame.pc]
       IN /\ label # "return"
          /\ IF Raises(label, heap, frame)
             THEN /\ again' = CallEnds(frame, Raised("AttributeError"))
                  /\ frame' = NoFrame
                  /\ heap' = heap
             ELSE LET r == Exec(label, heap, frame, now)
                      more == /\ label = "for_env"
                              /\ frame.names.it
                                   < Len(heap[frame.args.jboss_data])
                  IN /\ heap' = r.heap
                     /\ frame' = [frame EXCEPT
                                    !.names = r.names,
                                    !.pc = IF more THEN @ ELSE @ + 1,
                                    !.at = IF ReadsClock(label) THEN now
                                           ELSE @]
                     /\ again' = again
    /\ UNCHANGED <<proc, usageVars, now, dbVars, fetchVars, dashVars,
                   pc_service, appVars, outVars, svc, mpc, schedVars, sent,
                   log, error, conns>>

\* return summary
fmt_return ==
    /\ frame # NoFrame
    /\ Statements(frame.f, frame.detailed)[frame.pc] = "return"
    /\ again' = CallEnds(frame, frame.names.summary)
    /\ frame' = NoFrame
    /\ UNCHANGED <<proc, usageVars, heap, now, dbVars, fetchVars, dashVars,
                   pc_service, appVars, outVars, svc, mpc, schedVars, sent,
                   log, error, conns>>

(***************************************************************************)
(* Initial states.  Each specification starts from the inputs of the       *)
(* operations it runs; what it does not run stays as constructed.          *)
(***************************************************************************)
NowDates ==
    {Dt(2024, 3, 10, 0, 0, 0, 0), Dt(2024, 3, 1, 0, 0, 0, 0),
     Dt(2025, 1, 1, 0, 0, 0, 0), Dt(2025, 1, 2, 0, 0, 0, 0)}

\* Clock readings: midnight sharp, the scheduled 06:00, the last
\* microsecond of the day.
NowSet ==
    UNION {{d, [d EXCEPT !.hour = 6],
            [d EXCEPT !.hour = 23, !.minute = 59, !.second = 59,
                      !.microsecond = 999999]} : d \in NowDates}

\* Start times around the windows of a clock reading t, and NULL.
StartTimes(t) ==
    LET m == Midnight(t)
        p == PrevDay(m)
    IN {Combine(p, 21, 59), Combine(p, 22, 0), Combine(p, 23, 59), m,
        Combine(m, 10, 0), [Combine(m, 10, 0) EXCEPT !.microsecond = 1],
        NullDt}

StatusCodes == {0, 1, 2, 3, 4, 5, 6, 7, 14, 15, 16, -1}

\* Tables of at most n rows; WORKFLOW_RUN_ID is the key of a run, so the
\* rows of a table carry distinct ids.
WfTables(areas, starts, codes, n) ==
    {[i \in 1..Len(s) |->
        [SUBJECT_AREA |-> s[i].area, WORKFLOW_NAME |-> "wf_load_hr",
         WORKFLOW_RUN_ID |-> 100 + i, START_TIME |-> s[i].start,
         RUN_STATUS_CODE |-> s[i].code]] :
     s \in BoundedSeq([area : areas, start : starts, code : codes], n)}

SessTables(areas, starts, codes, n) ==
    {[i \in 1..Len(s) |->
        [SUBJECT_AREA |-> s[i].area, WORKFLOW_NAME |-> "wf_load_hr",
         WORKFLOW_RUN_ID |-> 100 + i, SESSION_NAME |-> "s_m_load_hr",
         ACTUAL_START |-> s[i].start, RUN_STATUS_CODE |-> s[i].code]] :
     s \in BoundedSeq([area : areas, start : starts, code : codes], n)}

TextCompleted == <<"C", "o", "m", "p", "l", "e", "t", "e", "d">>
TextUpper == <<"J", "O", "B", " ", "C", "O", "M", "P", "L", "E", "T", "E", "D">>
TextFailed == <<"F", "a", "i", "l", "e", "d">>
TextComplete == <<"C", "o", "m", "p", "l", "e", "t", "e">>

TextError401 ==
    <<"E", "r", "r", "o", "r", ":", " ", "4", "0", "1">>
TextCompletedRejects ==
    <<"C", "o", "m", "p", "l", "e", "t", "e", "d", " ", "w", "i", "t", "h",
      " ", "2", " ", "r", "e", "j", "e", "c", "t", "e", "d", " ",
      "r", "e", "c", "o", "r", "d", "s">>

\* Status and Message of a job row as the tables hold them.
JobStatusTexts == {TextCompleted, TextFailed, NullText}
JobMessageTexts ==
    {TextCompletedRejects, TextFailed, TextError401, NullText}

JobRows(groups, displays, starts, statuses, messages) ==
    [GroupName : groups, Display : displays, Start : starts,
     Status : statuses, Message : messages]

\* No monitor() runs: the operations are called on their own.
Free ==
    /\ svc = SvcIdle /\ mpc = "free" /\ cycle = 0 /\ next_run = NullDt
    /\ sent = <<>> /\ log = <<>> /\ error = NoError
    /\ conns = NoConns /\ again = AgainIdle

(***************************************************************************)
(* usage-server/monitor.py: the resource-usage probe.  The script is one   *)
(* run; the CSV file is kept as the sequence of its rows, a row as the     *)
(* tuple of its fields.                                                    *)
(***************************************************************************)
MaxRuns == 3        \* runs of the resource-usage probe

Absent == "absent"
NoUsage == output_file = Absent /\ written = <<>>

header == <<"Timestamp", "Metric", "Value", "Threshold">>

\* now.strftime('%Y.%m.%d %H:%M:%S'): the microsecond is dropped.
strftime(t) == <<t.year, t.month, t.day, t.hour, t.minute, t.second>>

\* psutil.cpu_percent(interval=1)
CpuReadings == {5, 100}

\* The drive letters that are looked at, of string.ascii_uppercase, and
\* what the loop can meet for one: the path does not exist, disk_usage
\* returns, or disk_usage raises (the handler prints a line, no row).
DriveLetters == <<"C", "D">>
DriveOutcomes == {"absent", "usage", "raise"}

DriveRow(dt, letter) == <<dt, <<letter, ": Free Space">>, 50, 100>>

RECURSIVE DriveRows(_, _, _)
DriveRows(dt, met, k) ==
    IF k > Len(DriveLetters) THEN <<>>
    ELSE (IF met[k] = "usage" THEN <<DriveRow(dt, DriveLetters[k])>> ELSE <<>>)
         \o DriveRows(dt, met, k + 1)

\* rows: the CPU row, the memory row, then a row per readable drive.
usage_rows(dt, cpu, met) ==
    <<<<dt, "CPU Usage", cpu, 100>>, <<dt, "Memory Usage", 4, 16>>>>
    \o DriveRows(dt, met, 1)

\* Mutant: the header is written by every run.
Mut_write_header(file) == TRUE

\* write_header = not os.path.exists(output_file)
write_header(file) == file = Absent

\* open(output_file, 'a'): the rows of an existing file are kept, an
\* absent file is created empty.
open_append(file) == IF file = Absent THEN <<>> ELSE file

\* One run of the script; the next run reads the clock at the same second
\* or a day later.
usage_monitor ==
    /\ proc = "usage_probe"
    /\ Len(written) < MaxRuns
    /\ \E cpu \in CpuReadings, met \in [1..Len(DriveLetters) -> DriveOutcomes] :
         LET rows == usage_rows(strftime(now), cpu, met)
         IN /\ output_file' =
                  open_append(output_file)
                  \o (IF write_header(output_file) THEN <<header>> ELSE <<>>)
                  \o rows
            /\ written' = Append(written, rows)
    /\ now' \in {now, NextDay(now)}
    /\ UNCHANGED <<proc, callVars, dbVars, fetchVars, dashVars, pc_service, appVars,
                   outVars, svc, mpc, schedVars, sent, log, error, conns,
                   again>>

Idle ==
    /\ workflows = <<>> /\ sessions = <<>> /\ wf_window = NoWindow
    /\ jobs = <<>> /\ jobs_window = NoWindow
    /\ mdm_dash = MdmDashIdle /\ pc_dash = PcDashIdle
    /\ pc_service = <<>>
    /\ mdm_apps = <<>> /\ appPc = "idle" /\ appEnv = 1
    /\ deployments = <<>> /\ pending = <<>>
    /\ probe = [e \in {ENVIRONMENTS[i] : i \in 1..Len(ENVIRONMENTS)} |-> "none"]
    /\ pc_chat = NotCalled /\ mdm_chat = NotCalled
    /\ pc_summary = NotCalled /\ mdm_summary = NotCalled

\* One repository table holds rows; the start times are drawn around the
\* windows, or the status codes are drawn from StatusCodes.
InitFetch ==
    /\ NoUsage /\ NoCall
    /\ now \in NowSet
    /\ \E src \in {"wf", "sess", "jobs"}, vary \in {"start", "code"} :
         LET inWindow == {Combine(PrevDay(Midnight(now)), 23, 59)}
             starts == IF vary = "start" THEN StartTimes(now) ELSE inWindow
             codes == IF vary = "start" THEN {1} ELSE StatusCodes
             n == IF vary = "start" THEN MaxRows ELSE MaxCodeRows
         IN /\ proc \in IF src = "jobs" THEN {"notifier", "mdm_dash"}
                        ELSE {"notifier", "pc_dash"}
            /\ REP_WFLOW_RUN \in
                 IF src = "wf"
                 THEN WfTables({NotifierWfArea, SharedArea}, starts, codes, n)
                 ELSE {<<>>}
            /\ REP_SESS_LOG \in
                 IF src = "sess"
                 THEN SessTables({NotifierSessArea, MonitoringArea}, starts,
                                 codes, n)
                 ELSE {<<>>}
            /\ JOB_VIEW \in
                 IF src = "jobs" /\ vary = "start"
                 THEN BoundedSeq(JobRows({"StgBatchGroupSAP", "OtherGroup"},
                                         {"Party"}, starts, {TextCompleted},
                                         {TextCompleted}), n)
                 ELSE IF src = "jobs"
                 THEN BoundedSeq(JobRows({"StgBatchGroupSAP"}, {"Party"},
                                         starts, JobStatusTexts,
                                         JobMessageTexts), n)
                 ELSE {<<>>}
    /\ Idle
    /\ Free

NextFetch ==
    \/ get_recent_workflows_and_sessions
    \/ get_recent_jobs
    \/ load_mdm_data
    \/ load_pc_data

SpecFetch == InitFetch /\ [][NextFetch]_vars

\* The clock readings of the formatting runs.
FmtNowSet == {Dt(2024, 3, 10, 6, 0, 0, 0), Dt(2025, 1, 1, 6, 0, 0, 0)}

\* status as check_pc_service returns it: one entry per .bat file.
ServiceStatuses ==
    {[i \in 1..Len(BAT_FILES) |-> [env |-> BAT_FILES[i], up |-> f[i]]] :
        f \in [1..Len(BAT_FILES) -> BOOLEAN]}

RunStatuses ==
    {"Succeeded", "Disabled", "Failed", "Stopped", "Aborted", "Running",
     "Terminated", "Unknown"}

WorkflowNames == {"wf_load_hr", "wf_load_fin"}
SessionNames == {"s_m_load_hr", "s_m_load_fin"}

\* Rows as the two queries of get_recent_workflows_and_sessions return
\* them; a workflow or a session can have run more than once.
FetchedWorkflows(t, n) ==
    {[i \in 1..Len(s) |->
        [SUBJECT_AREA |-> NotifierWfArea, WORKFLOW_NAME |-> s[i][2],
         WORKFLOW_RUN_ID |-> 100 + i,
         START_TIME |-> yesterday_10pm(t), Status |-> s[i][1]]] :
     s \in BoundedSeq(RunStatuses \X WorkflowNames, n)}

FetchedSessions(t, n) ==
    {[i \in 1..Len(s) |->
        [SUBJECT_AREA |-> NotifierSessArea, WORKFLOW_NAME |-> "wf_load_hr",
         WORKFLOW_RUN_ID |-> 100 + i, SESSION_NAME |-> s[i][2],
         Status |-> s[i][1]]] :
     s \in BoundedSeq(RunStatuses \X SessionNames, n)}

InitFmtPc ==
    /\ NoUsage /\ NoCall
    /\ proc = "notifier"
    /\ now \in FmtNowSet
    /\ REP_WFLOW_RUN = <<>> /\ REP_SESS_LOG = <<>> /\ JOB_VIEW = <<>>
    /\ wf_window = NotifierWindow(now)
    /\ \E k \in 0..MaxFmtRows :
         /\ workflows \in FetchedWorkflows(now, k)
         /\ sessions \in FetchedSessions(now, MaxFmtRows - k)
    /\ jobs = <<>> /\ jobs_window = NoWindow
    /\ mdm_dash = MdmDashIdle /\ pc_dash = PcDashIdle
    /\ pc_service \in ServiceStatuses
    /\ mdm_apps = <<>> /\ appPc = "idle" /\ appEnv = 1
    /\ deployments = <<>> /\ pending = <<>>
    /\ probe = [e \in {ENVIRONMENTS[i] : i \in 1..Len(ENVIRONMENTS)} |-> "none"]
    /\ pc_chat = NotCalled /\ mdm_chat = NotCalled
    /\ pc_summary = NotCalled /\ mdm_summary = NotCalled
    /\ Free

NextFmtPc ==
    \/ do_format_pc_chat
    \/ do_format_pc_summary

SpecFmtPc == InitFmtPc /\ [][NextFmtPc]_vars

\* The display names of the fetched rows: the first and the last entry of
\* CUSTOM_ORDER and a name that is not in it.
FetchedDisplays == {"Party", "STG_PARTY_PH_COMM_AD", "Match Analyze"}
FetchedStatusTexts ==
    {TextCompleted, TextUpper, TextFailed, TextComplete, NullText}

\* data as check_mdm_apps returns it: SIT not reachable, PRD with one
\* deployment up and one disabled.
ReturnedApps ==
    <<DataItem("SIT", SentinelRows),
      DataItem("PRD",
               <<[Deployment |-> DeploymentNames[1], Status |-> GlyphOk,
                  Enabled |-> GlyphOk],
                 [Deployment |-> DeploymentNames[2], Status |-> GlyphOk,
                  Enabled |-> GlyphFail]>>)>>

\* The rows of a night in which the first job failed and the whole group
\* was run again: a failed row of CUSTOM_ORDER[1], then a completed row of
\* every entry of CUSTOM_ORDER.
RerunJobs(t) ==
    LET row(name, status) ==
            [GroupName |-> "StgBatchGroupSAP", Display |-> name,
             Start |-> yesterday_10pm(t), Status |-> status,
             Message |-> TextCompleted]
    IN <<row(CUSTOM_ORDER[1], TextFailed)>>
       \o [k \in 1..Len(CUSTOM_ORDER) |-> row(CUSTOM_ORDER[k], TextCompleted)]

InitFmtMdm ==
    /\ NoUsage /\ NoCall
    /\ proc = "notifier"
    /\ now \in FmtNowSet
    /\ REP_WFLOW_RUN = <<>> /\ REP_SESS_LOG = <<>> /\ JOB_VIEW = <<>>
    /\ workflows = <<>> /\ sessions = <<>> /\ wf_window = NoWindow
    /\ jobs_window = NotifierWindow(now)
    /\ jobs \in BoundedSeq(JobRows({"StgBatchGroupSAP"}, FetchedDisplays,
                                   {yesterday_10pm(now)}, FetchedStatusTexts,
                                   {TextCompleted}), MaxJobs)
                \cup {RerunJobs(now)}
    /\ mdm_dash = MdmDashIdle /\ pc_dash = PcDashIdle
    /\ pc_service = <<>>
    /\ mdm_apps = ReturnedApps /\ appPc = "returned"
    /\ appEnv = Len(ENVIRONMENTS) + 1
    /\ deployments = <<>> /\ pending = <<>>
    /\ probe = [e \in {ENVIRONMENTS[i] : i \in 1..Len(ENVIRONMENTS)} |->
                  IF e = "SIT" THEN "non200" ELSE "rows"]
    /\ pc_chat = NotCalled /\ mdm_chat = NotCalled
    /\ pc_summary = NotCalled /\ mdm_summary = NotCalled
    /\ Free

NextFmtMdm ==
    \/ do_format_mdm_chat
    \/ do_format_mdm_summary

SpecFmtMdm == InitFmtMdm /\ [][NextFmtMdm]_vars

\* The probe of the MDM applications followed by the MDM summaries.
Init ==
    /\ NoUsage /\ NoCall
    /\ proc = "notifier"
    /\ now \in FmtNowSet
    /\ REP_WFLOW_RUN = <<>> /\ REP_SESS_LOG = <<>> /\ JOB_VIEW = <<>>
    /\ Idle
    /\ Free

Next ==
    \/ check_mdm_apps_begin
    \/ check_mdm_apps_list
    \/ check_mdm_apps_status
    \/ do_format_mdm_chat
    \/ do_format_mdm_summary

Spec == Init /\ [][Next]_vars

\* check_pc_service called on its own.
InitProbe ==
    /\ NoUsage /\ NoCall
    /\ proc = "notifier"
    /\ now \in FmtNowSet
    /\ REP_WFLOW_RUN = <<>> /\ REP_SESS_LOG = <<>> /\ JOB_VIEW = <<>>
    /\ Idle
    /\ Free

NextProbe ==
    \/ check_pc_service_begin
    \/ check_pc_service_probe

SpecProbe == InitProbe /\ [][NextProbe]_vars

MaxCycleRows == 1   \* rows of a table in the monitoring cycles

\* run_scheduler: the job is due at the first reading of the clock; the
\* tables hold rows that started in the window of the first cycle.
InitMonitor ==
    /\ NoUsage /\ NoCall
    /\ proc = "notifier"
    /\ now \in FmtNowSet
    /\ LET inWindow == {Combine(PrevDay(Midnight(now)), 23, 59)}
       IN /\ REP_WFLOW_RUN \in
                WfTables({NotifierWfArea}, inWindow, {3}, MaxCycleRows)
          /\ REP_SESS_LOG = <<>>
          /\ JOB_VIEW \in
                BoundedSeq(JobRows({"StgBatchGroupSAP"}, {"Party"}, inWindow,
                                   {TextCompleted, NullText},
                                   {TextCompleted}),
                           MaxCycleRows)
    /\ Idle
    /\ svc = SvcIdle /\ mpc = "sleeping" /\ cycle = 0 /\ next_run = now
    /\ sent = <<>> /\ log = <<>> /\ error = NoError
    /\ conns = NoConns /\ again = AgainIdle

NextMonitor ==
    \/ run_pending
    \/ check_pc_service_begin
    \/ check_pc_service_probe
    \/ check_mdm_apps_begin
    \/ check_mdm_apps_list
    \/ check_mdm_apps_status
    \/ get_recent_workflows_and_sessions
    \/ get_recent_jobs
    \/ do_format_pc_chat
    \/ do_format_mdm_chat
    \/ do_format_pc_summary
    \/ do_format_mdm_summary
    \/ do_send_to_teams
    \/ monitor_returns
    \/ time_sleep

SpecMonitor == InitMonitor /\ [][NextMonitor]_vars

\* The loop of run_scheduler never stops taking steps.
SpecMonitorLive == SpecMonitor /\ WF_vars(NextMonitor)

MaxTwiceRows == 1   \* rows of a list passed to a formatter called twice

\* The arguments of the formatters: the lists of the PowerCenter
\* formatters hold rows, or the list of the MDM formatters does.
InitFmtTwice ==
    /\ NoUsage
    /\ proc = "notifier"
    /\ now \in FmtNowSet
    /\ REP_WFLOW_RUN = <<>> /\ REP_SESS_LOG = <<>> /\ JOB_VIEW = <<>>
    /\ wf_window = NotifierWindow(now) /\ jobs_window = NotifierWindow(now)
    /\ \E side \in {"pc", "mdm"}, k \in 0..MaxTwiceRows :
         /\ workflows \in IF side = "pc" THEN FetchedWorkflows(now, k)
                          ELSE {<<>>}
         /\ sessions \in IF side = "pc"
                         THEN FetchedSessions(now, MaxTwiceRows - k)
                         ELSE {<<>>}
         /\ jobs \in IF side = "mdm"
                     THEN BoundedSeq(JobRows({"StgBatchGroupSAP"},
                                             FetchedDisplays,
                                             {yesterday_10pm(now)},
                                             FetchedStatusTexts,
                                             {TextCompleted}), MaxTwiceRows)
                     ELSE {<<>>}
    /\ mdm_dash = MdmDashIdle /\ pc_dash = PcDashIdle
    /\ pc_service \in {[i \in 1..Len(BAT_FILES) |->
                           [env |-> BAT_FILES[i], up |-> i # k]] : k \in 0..1}
    /\ mdm_apps = ReturnedApps /\ appPc = "returned"
    /\ appEnv = Len(ENVIRONMENTS) + 1
    /\ deployments = <<>> /\ pending = <<>>
    /\ probe = [e \in {ENVIRONMENTS[i] : i \in 1..Len(ENVIRONMENTS)} |->
                  IF e = "SIT" THEN "non200" ELSE "rows"]
    /\ pc_chat = NotCalled /\ mdm_chat = NotCalled
    /\ pc_summary = NotCalled /\ mdm_summary = NotCalled
    /\ svc = SvcIdle /\ mpc = "free" /\ cycle = 0 /\ next_run = NullDt
    /\ sent = <<>> /\ log = <<>> /\ error = NoError
    /\ conns = NoConns /\ again = AgainIdle
    /\ heap = ArgHeap(pc_service, workflows, sessions, mdm_apps, jobs)
    /\ frame = NoFrame

NextFmtTwice ==
    \/ fmt_call
    \/ fmt_exec
    \/ fmt_return

SpecFmtTwice == InitFmtTwice /\ [][NextFmtTwice]_vars

\* The resource-usage probe is run again and again on one output file
\* that does not exist before the first run.
InitUsage ==
    /\ proc = "usage_probe"
    /\ now \in FmtNowSet
    /\ REP_WFLOW_RUN = <<>> /\ REP_SESS_LOG = <<>> /\ JOB_VIEW = <<>>
    /\ Idle
    /\ Free
    /\ output_file = Absent /\ written = <<>>
    /\ NoCall

NextUsage == usage_monitor

SpecUsage == InitUsage /\ [][NextUsage]_vars

(***************************************************************************)
(* Definitions the properties are stated with.  They compute dates and     *)
(* orders on their own, by the proleptic ordinal of a date.                *)
(***************************************************************************)
Range(s) == {s[i] : i \in 1..Len(s)}

DaysBeforeMonth(y, mo) ==
    LET d == <<0, 31, 59, 90, 120, 151, 181, 212, 243, 273, 304, 334>>
    IN d[mo] + (IF mo > 2 /\ IsLeap(y) THEN 1 ELSE 0)

Ordinal(t) ==
    LET y == t.year - 1
    IN y * 365 + (y \div 4) - (y \div 100) + (y \div 400)
       + DaysBeforeMonth(t.year, t.month) + t.day

MinuteKey(t) == (Ordinal(t) * 24 + t.hour) * 60 + t.minute

Before(a, b) ==
    \/ MinuteKey(a) < MinuteKey(b)
    \/ /\ MinuteKey(a) = MinuteKey(b)
       /\ \/ a.second < b.second
          \/ a.second = b.second /\ a.microsecond < b.microsecond
NotAfter(a, b) == a = b \/ Before(a, b)

RunStatusTable ==
    (1 :> "Succeeded") @@ (2 :> "Disabled") @@ (3 :> "Failed")
    @@ (4 :> "Stopped") @@ (5 :> "Aborted") @@ (6 :> "Running")
    @@ (15 :> "Terminated")
RunStatusOf(code) ==
    IF code \in DOMAIN RunStatusTable THEN RunStatusTable[code] ELSE "Unknown"

\* The code of the run a fetched row was made from.
CodeOfRun(table, id) ==
    (CHOOSE r \in Range(table) : r.WORKFLOW_RUN_ID = id).RUN_STATUS_CODE

\* C1: every fetched workflow and session row, in the notifier and in the
\* dashboard, carries the status the fixed table gives for the run status
\* code of its run: 1 Succeeded, 2 Disabled, 3 Failed, 4 Stopped, 5 Aborted,
\* 6 Running, 15 Terminated, any other code Unknown.
C1_StatusTable ==
    /\ \A w \in Range(workflows) :
         w.Status = RunStatusOf(CodeOfRun(REP_WFLOW_RUN, w.WORKFLOW_RUN_ID))
    /\ \A x \in Range(sessions) :
         x.Status = RunStatusOf(CodeOfRun(REP_SESS_LOG, x.WORKFLOW_RUN_ID))
    /\ \A w \in Range(pc_dash.df_wf) :
         w.Status = RunStatusOf(CodeOfRun(REP_WFLOW_RUN, w.RunID))
    /\ \A x \in Range(pc_dash.df_sess) :
         x.Status = RunStatusOf(CodeOfRun(REP_SESS_LOG, x.RunID))

\* A session of code 15 was fetched as Terminated by the dashboard.
C1_Witness ==
    /\ pc_dash.loaded
    /\ \E x \in Range(pc_dash.df_sess) :
         /\ CodeOfRun(REP_SESS_LOG, x.RunID) = 15
         /\ x.Status = "Terminated"

Now20240310 == Dt(2024, 3, 10, 6, 0, 0, 0)

WindowOfNow(w) ==
    /\ w.end = Dt(now.year, now.month, now.day, 0, 0, 0, 0)
    /\ Before(w.start, w.end)
    /\ MinuteKey(w.end) - MinuteKey(w.start) = 120
    /\ w.start.second = 0 /\ w.start.microsecond = 0
    /\ NotAfter(w.end, now)
    /\ now = Now20240310 =>
         /\ w.start = Dt(2024, 3, 9, 22, 0, 0, 0)
         /\ w.end = Dt(2024, 3, 10, 0, 0, 0, 0)

\* C6: the window of each notifier fetch ends at midnight of the date of
\* now and starts exactly two hours earlier, so start < end <= now; at
\* 2024-03-10T06:00:00 it is 2024-03-09T22:00:00 to 2024-03-10T00:00:00.
C6_NotifierWindow ==
    /\ wf_window # NoWindow => WindowOfNow(wf_window)
    /\ jobs_window # NoWindow => WindowOfNow(jobs_window)

\* Both fetches have computed their window at 2024-03-10T06:00:00.
C6_Witness ==
    /\ now = Now20240310
    /\ wf_window = [start |-> Dt(2024, 3, 9, 22, 0, 0, 0),
                    end |-> Dt(2024, 3, 10, 0, 0, 0, 0)]
    /\ jobs_window = wf_window

\* Start time t lies in the half-open window [w.start, w.end).
InHalfOpen(t, w) == ~IsNullDt(t) /\ NotAfter(w.start, t) /\ Before(t, w.end)

\* Start time t lies in the closed window [w.start, w.end].
InClosed(t, w) == ~IsNullDt(t) /\ NotAfter(w.start, t) /\ NotAfter(t, w.end)

RunIds(s) == {r.WORKFLOW_RUN_ID : r \in Range(s)}

\* C7: each of the three notifier fetches selects exactly the records (of
\* the monitored folder or job groups) whose start time t satisfies
\* window.start <= t < window.end.
C7_HalfOpenFetches ==
    /\ wf_window # NoWindow =>
         /\ RunIds(workflows) =
              {r.WORKFLOW_RUN_ID : r \in
                 {r \in Range(REP_WFLOW_RUN) :
                    /\ r.SUBJECT_AREA =
                         <<"G", "L", "E", "N", "C", "O", "R", "E", "_", "H", "R", "_", "P", "R", "O", "D">>
                    /\ InHalfOpen(r.START_TIME, wf_window)}}
         /\ RunIds(sessions) =
              {r.WORKFLOW_RUN_ID : r \in
                 {r \in Range(REP_SESS_LOG) :
                    /\ r.SUBJECT_AREA =
                         <<"<", "m", "o", "d", "i", "f", "y", " ", "t", "h", "i", "s", ">">>
                    /\ InHalfOpen(r.ACTUAL_START, wf_window)}}
    /\ jobs_window # NoWindow =>
         LET Sel(r) == /\ r.GroupName \in JobGroups
                       /\ InHalfOpen(r.Start, jobs_window)
         IN jobs = SelectSeq(JOB_VIEW, Sel)

DashWindowOfNow(w) ==
    /\ Ordinal(w.start) = Ordinal(now) - 1
    /\ w.start.hour = 22 /\ w.start.minute = 0
    /\ w.start.second = 0 /\ w.start.microsecond = 0
    /\ w.end = Dt(now.year, now.month, now.day, 10, 0, 0, 0)

\* C8: a dashboard window runs from 22:00 of the day before now's date to
\* 10:00 of now's date, and the windowed frames keep exactly the rows of
\* the loaded frames whose start time lies in the closed window; a row
\* without a start time is never kept.
C8_DashboardWindow ==
    /\ mdm_dash.loaded =>
         LET Sel(r) == InClosed(r.Start, mdm_dash.window)
         IN /\ DashWindowOfNow(mdm_dash.window)
            /\ mdm_dash.df_today = SelectSeq(mdm_dash.df, Sel)
            /\ \A r \in Range(mdm_dash.df_today) : ~IsNullDt(r.Start)
    /\ pc_dash.loaded =>
         LET SelWf(r) == InClosed(r.START_TIME, pc_dash.window)
             SelSess(r) == InClosed(r.ActualStart, pc_dash.window)
         IN /\ DashWindowOfNow(pc_dash.window)
            /\ pc_dash.df_today = SelectSeq(pc_dash.df_wf, SelWf)
            /\ pc_dash.df_sess_today = SelectSeq(pc_dash.df_sess, SelSess)
            /\ \A r \in Range(pc_dash.df_today) : ~IsNullDt(r.START_TIME)
            /\ \A r \in Range(pc_dash.df_sess_today) : ~IsNullDt(r.ActualStart)

\* The workflow frame holds a run that started at 10:00 sharp, which is
\* kept, and a run without a start time, which is not.
C8_Witness ==
    /\ pc_dash.loaded
    /\ \E r \in Range(pc_dash.df_today) : r.START_TIME = pc_dash.window.end
    /\ \E r \in Range(pc_dash.df_wf) : IsNullDt(r.START_TIME)
    /\ Len(pc_dash.df_today) = 1

NonSucceededStatuses ==
    {"Disabled", "Failed", "Stopped", "Aborted", "Running", "Terminated",
     "Unknown"}

FailedRuns(rows) ==
    Cardinality({i \in 1..Len(rows) : rows[i].Status \in NonSucceededStatuses})

PcCounts(out) ==
    /\ out.failed_wf = FailedRuns(workflows)
    /\ out.total_wf = Len(workflows)
    /\ out.failed_sess = FailedRuns(sessions)
    /\ out.total_sess = Len(sessions)
    /\ out.failed_wf <= out.total_wf
    /\ out.failed_sess <= out.total_sess

\* C3: in both PowerCenter summaries the failed count of workflows, and of
\* sessions, is the number of records whose status is not Succeeded
\* (Running, Disabled, Stopped, Aborted, Terminated, Unknown and Failed
\* alike), the total is the number of records passed in, and
\* failed <= total.
C3_PcFailedCounts ==
    /\ pc_chat # NotCalled => PcCounts(pc_chat)
    /\ pc_summary # NotCalled => PcCounts(pc_summary)

\* Both summaries were built from a Running and a Succeeded workflow.
C3_Witness ==
    /\ pc_chat # NotCalled /\ pc_summary # NotCalled
    /\ Len(workflows) = 2
    /\ workflows[1].Status = "Running" /\ workflows[2].Status = "Succeeded"
    /\ pc_summary.failed_wf = 1 /\ pc_summary.total_wf = 2
    /\ pc_chat.failed_wf = 1

\* The text holds "completed" in any mix of upper and lower case.
CompletedAnyCase ==
    <<{"c", "C"}, {"o", "O"}, {"m", "M"}, {"p", "P"}, {"l", "L"},
      {"e", "E"}, {"t", "T"}, {"e", "E"}, {"d", "D"}>>
HoldsCompleted(text) ==
    \E off \in 0..(Len(text) - Len(CompletedAnyCase)) :
        \A k \in 1..Len(CompletedAnyCase) : text[off + k] \in CompletedAnyCase[k]

RowsOf(js, name) == {i \in 1..Len(js) : js[i].Display = name}
GlyphOf(listing, name) ==
    (CHOOSE k \in 1..Len(listing) : listing[k][1] = name)
InListing(listing, name) == \E k \in 1..Len(listing) : listing[k][1] = name

JobClassified(out, listing) ==
    /\ out.failed =
         Cardinality({i \in 1..Len(jobs) : ~HoldsCompleted(jobs[i].Status)})
    /\ out.failed <= out.total
    /\ \A k \in 1..Len(listing) : listing[k][2] \in {GlyphOk, GlyphFail}
    /\ \A i \in 1..Len(jobs) :
         (RowsOf(jobs, jobs[i].Display) = {i}
            /\ InListing(listing, jobs[i].Display)) =>
           (listing[GlyphOf(listing, jobs[i].Display)][2] = GlyphOk
              <=> HoldsCompleted(jobs[i].Status))

\* C2: whenever an MDM summary is built, a batch-job row is succeeded (ok
\* glyph, not in the failed count) if and only if its status text holds
\* "completed" in any letter case; every other text is failed (fail glyph,
\* in the failed count); there is no third outcome.
C2_BatchJobBinary ==
    /\ mdm_summary.state = "ok" =>
         JobClassified(mdm_summary, mdm_summary.ordered_results)
    /\ (mdm_chat.state = "ok" /\ mdm_chat.detailed) =>
         JobClassified(mdm_chat, mdm_chat.ordered_results)
    /\ mdm_chat.state = "ok" => JobClassified(mdm_chat, <<>>)

\* A row "JOB COMPLETED" of Party got the ok glyph and a row "Complete"
\* of the last canonical entry got the fail glyph and is the one failure.
C2_Witness ==
    /\ mdm_summary.state = "ok"
    /\ \E i, j \in 1..Len(jobs) :
         /\ jobs[i].Display = "Party" /\ jobs[i].Status = TextUpper
         /\ jobs[j].Display = "STG_PARTY_PH_COMM_AD"
         /\ jobs[j].Status = TextComplete
    /\ Len(jobs) = 2
    /\ mdm_summary.ordered_results[1] = <<"Party", GlyphOk>>
    /\ mdm_summary.ordered_results[32] = <<"STG_PARTY_PH_COMM_AD", GlyphFail>>
    /\ mdm_summary.failed = 1

ListingNames(listing) == [k \in 1..Len(listing) |-> listing[k][1]]
Canonical == Range(CUSTOM_ORDER)

CanonicalListing(out, listing) ==
    /\ ListingNames(listing) = CUSTOM_ORDER
    /\ \A i \in 1..Len(jobs) :
         jobs[i].Display \notin Canonical => ~InListing(listing, jobs[i].Display)
    /\ out.total = Len(jobs)
    /\ out.failed =
         Cardinality({i \in 1..Len(jobs) :
                        jobs[i].Display \in Canonical
                        /\ ~HoldsCompleted(jobs[i].Status)})
         + Cardinality({i \in 1..Len(jobs) :
                          jobs[i].Display \notin Canonical
                          /\ ~HoldsCompleted(jobs[i].Status)})

\* C4: in whatever order the rows were fetched, the itemized listing names
\* the entries of CUSTOM_ORDER in the order of CUSTOM_ORDER; a fetched job
\* whose display name is not in CUSTOM_ORDER is not listed, but it is
\* counted in the total, and in the failed count when it is not completed.
C4_CanonicalOrder ==
    /\ mdm_summary.state = "ok" =>
         CanonicalListing(mdm_summary, mdm_summary.ordered_results)
    /\ (mdm_chat.state = "ok" /\ mdm_chat.detailed) =>
         CanonicalListing(mdm_chat, mdm_chat.ordered_results)

\* The rows came last canonical entry first, with a failed job that is
\* not in the canonical list between them.
C4_Witness ==
    /\ mdm_summary.state = "ok"
    /\ mdm_chat.state = "ok" /\ mdm_chat.detailed
    /\ Len(jobs) = 3
    /\ jobs[1].Display = "STG_PARTY_PH_COMM_AD" /\ jobs[1].Status = TextCompleted
    /\ jobs[2].Display = "Match Analyze" /\ jobs[2].Status = TextFailed
    /\ jobs[3].Display = "Party" /\ jobs[3].Status = TextCompleted
    /\ mdm_summary.ordered_results[1] = <<"Party", GlyphOk>>
    /\ mdm_summary.total = 3 /\ mdm_summary.failed = 1

OneLinePerEntry(out, listing) ==
    /\ Len(listing) = Len(CUSTOM_ORDER)
    /\ \A name \in Canonical :
         /\ Cardinality({k \in 1..Len(listing) : listing[k][1] = name}) = 1
         /\ RowsOf(jobs, name) = {} =>
              listing[GlyphOf(listing, name)][2] = GlyphFail
    /\ out.total = Len(jobs)
    /\ out.failed <= Len(jobs)

\* C5: the itemized listing has exactly one line per entry of CUSTOM_ORDER
\* whatever rows were fetched; an entry without a fetched row shows the
\* fail glyph; the total and the failed count are taken over the fetched
\* rows only.
C5_MissingEntries ==
    /\ mdm_summary.state = "ok" =>
         OneLinePerEntry(mdm_summary, mdm_summary.ordered_results)
    /\ (mdm_chat.state = "ok" /\ mdm_chat.detailed) =>
         OneLinePerEntry(mdm_chat, mdm_chat.ordered_results)

\* Two completed rows were fetched: 32 lines, 30 of them with the fail
\* glyph of a missing entry, and 0 failed of 2.
C5_Witness ==
    /\ mdm_summary.state = "ok"
    /\ Len(jobs) = 2
    /\ jobs[1].Display = "STG_PARTY_PH_COMM_AD" /\ jobs[2].Display = "Party"
    /\ Len(mdm_summary.ordered_results) = 32
    /\ mdm_summary.ordered_results[2] = <<"Party Relationship", GlyphFail>>
    /\ Cardinality({k \in 1..32 :
                      mdm_summary.ordered_results[k][2] = GlyphFail}) = 30
    /\ mdm_summary.total = 2 /\ mdm_summary.failed = 0

EnvNames == Range(ENVIRONMENTS)
SentinelRow ==
    [Deployment |-> "N/A", Status |-> "U+274C", Enabled |-> "Not Reachable"]
ItemsOf(env) == {i \in 1..Len(mdm_apps) : mdm_apps[i].env = env}

\* C9: once check_mdm_apps has returned, every configured environment has
\* one non-empty list of rows; an environment whose probe raised, got a
\* status other than 200 or found no deployment row has exactly the one
\* sentinel row; and whatever one environment met, the next ones were
\* probed.
C9_SentinelPerEnvironment ==
    /\ \A i \in 1..Len(mdm_apps) : mdm_apps[i].rows # <<>>
    /\ \A i \in 1..Len(mdm_apps) :
         probe[mdm_apps[i].env] \in {"raised", "non200", "norows"} =>
           mdm_apps[i].rows = <<SentinelRow>>
    /\ appPc \in {"list", "status"} => appEnv <= Len(ENVIRONMENTS)
    /\ appPc = "returned" =>
         \A env \in EnvNames :
            /\ Cardinality(ItemsOf(env)) = 1
            /\ probe[env] # "none"

\* SIT raised and PRD was still probed and returned two deployments.
C9_Witness ==
    /\ appPc = "returned"
    /\ probe["SIT"] = "raised" /\ probe["PRD"] = "rows"
    /\ mdm_apps[1] = [env |-> "SIT", rows |-> <<SentinelRow>>]
    /\ mdm_apps[2].env = "PRD" /\ Len(mdm_apps[2].rows) = 2

EnvCounts(out) ==
    /\ Len(out.env_lines) = Len(mdm_apps)
    /\ \A i \in 1..Len(mdm_apps) :
         LET rows == mdm_apps[i].rows
             line == out.env_lines[i]
             good == {k \in 1..Len(rows) :
                        rows[k].Status = "U+2705" /\ rows[k].Enabled = "U+2705"}
         IN /\ line.env = mdm_apps[i].env
            /\ line.ok = Cardinality(good)
            /\ line.fail = Cardinality((1..Len(rows)) \ good)
            /\ line.ok + line.fail = Len(rows)
            /\ rows = <<SentinelRow>> => (line.ok = 0 /\ line.fail = 1)

\* C10: in the MDM summaries, ok of an environment is the number of its
\* rows whose Status and Enabled are both the ok glyph, fail is the number
\* of its other rows, ok + fail is the number of its rows, and a sentinel
\* environment is reported as 0 ok and 1 fail.
C10_EnvOkFail ==
    /\ mdm_chat.state = "ok" => EnvCounts(mdm_chat)
    /\ mdm_summary.state = "ok" => EnvCounts(mdm_summary)

\* SIT is the sentinel (0 | 1); PRD has an up and enabled deployment and
\* one that is up but disabled (1 | 1).
C10_Witness ==
    /\ mdm_summary.state = "ok" /\ mdm_chat.state = "ok"
    /\ mdm_apps[1].rows = <<SentinelRow>>
    /\ mdm_summary.env_lines[1] = [env |-> "SIT", ok |-> 0, fail |-> 1]
    /\ Len(mdm_apps[2].rows) = 2
    /\ mdm_apps[2].rows[2].Status = "U+2705"
    /\ mdm_apps[2].rows[2].Enabled = "U+274C"
    /\ mdm_summary.env_lines[2] = [env |-> "PRD", ok |-> 1, fail |-> 1]

\* The rows of a frame whose status text does not hold "completed".
NotCompletedRows(rows) ==
    Cardinality({i \in 1..Len(rows) : ~HoldsCompleted(rows[i].Status)})

\* C17: classifying the batch-job rows is total: for every list of fetched
\* rows, a row with a NULL status included, format_mdm_chat and
\* format_mdm_summary return a summary, its total is the number of rows
\* and every row that is not completed is in its failed count.
C17_ClassifyTotal ==
    /\ mdm_chat # NotCalled =>
         /\ mdm_chat.state = "ok"
         /\ mdm_chat.total = Len(jobs)
         /\ mdm_chat.failed = NotCompletedRows(jobs)
    /\ mdm_summary # NotCalled =>
         /\ mdm_summary.state = "ok"
         /\ mdm_summary.total = Len(jobs)
         /\ mdm_summary.failed = NotCompletedRows(jobs)

\* C19: the failed-job count of the MDM dashboard is the number of its
\* windowed rows whose status text does not hold "completed" in any
\* letter case, which is the failed count the notifier reports for the
\* same rows.
C19_DashboardSameRule ==
    mdm_dash.loaded =>
        mdm_dash.failed_jobs = NotCompletedRows(mdm_dash.df_today)

RunsWithStatus(rows, statuses) ==
    Cardinality({i \in 1..Len(rows) : rows[i].Status \in statuses})

\* C20: on the PowerCenter dashboard every windowed workflow run is either
\* a success or a failure, successes + failures = total_runs, a run counts
\* as a failure when its status is anything but Succeeded, and
\* failed_sessions is the number of windowed sessions that are not
\* Succeeded.
C20_DashboardPartition ==
    pc_dash.loaded =>
        /\ pc_dash.successes + pc_dash.failures = pc_dash.total_runs
        /\ pc_dash.failures =
             RunsWithStatus(pc_dash.df_today, NonSucceededStatuses)
        /\ pc_dash.failed_sessions =
             RunsWithStatus(pc_dash.df_sess_today, NonSucceededStatuses)

\* stdout followed by stderr, a missing stream counting as empty.
ProbeOutput(o) ==
    (IF o.stdout = <<"<NULL>">> THEN <<>> ELSE o.stdout)
        \o (IF o.stderr = <<"<NULL>">> THEN <<>> ELSE o.stderr)

HoldsAlive(text) ==
    \E off \in 0..(Len(text) - Len(AliveText)) :
        \A k \in 1..Len(AliveText) : text[off + k] = AliveText[k]

\* C11: check_pc_service gives one boolean per environment, in the order
\* DEV, SIT, PRD; it is true exactly when the probe ran and its output
\* holds "Integration Service is alive"; a probe that timed out or raised
\* gives false, raises nothing, and the loop goes on to the environments
\* that follow until all three are set.
C11_ServiceBooleans ==
    /\ Len(pc_service) = Len(svc.met)
    /\ \A i \in 1..Len(pc_service) :
         /\ pc_service[i].env = <<"DEV", "SIT", "PRD">>[i]
         /\ pc_service[i].up \in BOOLEAN
         /\ pc_service[i].up <=>
              (svc.met[i].kind = "ran" /\ HoldsAlive(ProbeOutput(svc.met[i])))
    /\ svc.pc = "returned" <=> Len(svc.met) = 3
    /\ svc.pc = "loop" => Len(svc.met) < 3
    /\ error = NoError

\* DEV timed out, SIT raised, and PRD was still probed and is alive.
C11_Witness ==
    /\ svc.pc = "returned"
    /\ svc.met[1].kind = "timeout" /\ svc.met[2].kind = "raise"
    /\ svc.met[3].kind = "ran"
    /\ pc_service = <<[env |-> "DEV", up |-> FALSE],
                      [env |-> "SIT", up |-> FALSE],
                      [env |-> "PRD", up |-> TRUE]>>

\* monitor() is over: it returned to the scheduler.
CycleOver == cycle > 0 /\ mpc \in {"return", "sleeping"}

FailedDelivery(d) == d.met.kind = "raise" \/ d.met.code # 200

AllDelivered ==
    /\ Len(sent) = 4
    /\ [i \in 1..4 |-> sent[i].message] =
         <<"pc_chat", "mdm_chat", "pc_summary", "mdm_summary">>

\* C12: when a delivery of a cycle failed (an answer other than 200, or
\* the HTTP call raised), a line was logged and, by the end of the cycle,
\* each of the four deliveries was attempted exactly once.
C12_DeliveriesContinue ==
    (CycleOver /\ \E i \in 1..Len(sent) : FailedDelivery(sent[i])) =>
        /\ \E k \in 1..Len(log) :
             log[k].line \in {"Teams post failed", "Error during monitoring"}
        /\ AllDelivered

\* C13: a send_to_teams call never raises: it returns true after an
\* answer 200 and false after any failure, a raised HTTP call included.
C13_DeliverNeverRaises ==
    \A i \in 1..Len(sent) :
        /\ sent[i].result.state = "ok"
        /\ sent[i].result.value =
             (IF sent[i].met.kind = "status" /\ sent[i].met.code = 200
              THEN "True" ELSE "False")

\* C14: when a database fetch of a cycle raised, the cycle still made the
\* other fetch and, by its end, attempted the four deliveries.
C14_FetchFailureIsNoData ==
    (CycleOver /\ error.cycle = cycle
       /\ error.by \in {"get_recent_workflows_and_sessions",
                        "get_recent_jobs"}) =>
        AllDelivered

\* C15: whatever a step of a cycle raises, the exception stays inside
\* monitor(): the loop of run_scheduler never ends, and a cycle in which
\* an exception was raised is followed by the next scheduled cycle.
C15_SchedulerSurvives ==
    /\ [](mpc # "crashed")
    /\ \A k \in 1..(MaxCycles - 1) :
         (cycle = k /\ error.cycle = k) ~> (cycle = k + 1)

\* The second cycle runs, and has raised nothing yet, after a call of the
\* first one raised.
C15_Witness ==
    /\ cycle = 2
    /\ error.cycle = 1 /\ error.by = "none"
    /\ mpc = "get_recent_jobs"

\* C16: whenever a fetch has returned or raised, every connection it
\* opened is closed.
C16_ConnectionsClosed ==
    \A f \in {"get_recent_workflows_and_sessions", "get_recent_jobs",
              "load_mdm_data", "load_pc_data"} : conns[f] = 0

SameDate(a, b) == a.year = b.year /\ a.month = b.month /\ a.day = b.day

\* The objects passed to the calls: the five arguments and the list of
\* deployments of each item of jboss_data.
InputObjects == 1..(5 + Len(heap[ArgRefs.jboss_data]))

\* C18: a formatter called twice on the same objects gives, when both
\* calls read the same date, the same summary both times, terse or
\* detailed, and no statement of a call changes an object that was passed
\* to it.
C18_FormatDeterministic ==
    /\ [](\A f \in {"format_pc_chat", "format_pc_summary",
                     "format_mdm_chat", "format_mdm_summary"} :
            (again[f].state = "called"
               /\ SameDate(again[f].at1, again[f].at2)) =>
              again[f].first = again[f].second)
    /\ [][\A i \in InputObjects : heap'[i] = heap[i]]_vars

\* The detailed MDM chat summary was built at 06:00 and at 23:59 of the
\* same day, each call filling lists of its own, and the two are the
\* same.
C18_Witness ==
    /\ again["format_mdm_chat"].state = "called"
    /\ again["format_mdm_chat"].detailed
    /\ again["format_mdm_chat"].at1.hour = 6
    /\ again["format_mdm_chat"].at2.hour = 23
    /\ again["format_mdm_chat"].first.state = "ok"
    /\ again["format_mdm_chat"].first.total = 1
    /\ Len(mdm_apps) >= 1
    /\ \E i \in 1..Len(mdm_apps) : Len(mdm_apps[i].rows) >= 1
    /\ Len(again["format_mdm_chat"].first.env_tables) = Len(mdm_apps)
    /\ again["format_mdm_chat"].first = again["format_mdm_chat"].second
    /\ Len(heap) > 5 + Len(mdm_apps)
    /\ \A i \in InputObjects :
          heap[i] = ArgHeap(pc_service, workflows, sessions, mdm_apps, jobs)[i]

\* One line per record, at the position of the record, with its name and
\* the ok glyph exactly for the status Succeeded.
ItemizedAsFetched(lines, rows, names) ==
    /\ Len(lines) = Len(rows)
    /\ \A i \in 1..Len(rows) :
         /\ lines[i][1] = names[i]
         /\ lines[i][2] \in {"U+2705", "U+274C"}
         /\ lines[i][2] = "U+2705" <=> rows[i].Status = "Succeeded"

PcItemized(out) ==
    /\ ItemizedAsFetched(out.wf_lines, workflows,
                         [i \in 1..Len(workflows) |->
                            workflows[i].WORKFLOW_NAME])
    /\ ItemizedAsFetched(out.sess_lines, sessions,
                         [i \in 1..Len(sessions) |->
                            sessions[i].SESSION_NAME])

\* C21: the workflow list and the session list of the detailed PowerCenter
\* summary, and of the chat summary when it is itemized, hold one line per
\* fetched record at the position of the record (nothing reordered, merged
\* or left out), and a line carries the ok glyph if and only if the status
\* of its record is Succeeded.
C21_ItemizedInFetchOrder ==
    /\ pc_summary # NotCalled => PcItemized(pc_summary)
    /\ (pc_chat # NotCalled /\ pc_chat.detailed) => PcItemized(pc_chat)

\* Two runs of wf_load_hr, Stopped then Succeeded: two lines of the same
\* name in that order.
C21_Witness ==
    /\ pc_summary # NotCalled /\ pc_chat # NotCalled /\ pc_chat.detailed
    /\ Len(workflows) = 2
    /\ workflows[1].WORKFLOW_NAME = "wf_load_hr"
    /\ workflows[1].Status = "Stopped"
    /\ workflows[2].WORKFLOW_NAME = "wf_load_hr"
    /\ workflows[2].Status = "Succeeded"
    /\ pc_summary.wf_lines = <<<<"wf_load_hr", "U+274C">>,
                               <<"wf_load_hr", "U+2705">>>>
    /\ pc_chat.wf_lines = pc_summary.wf_lines

\* C22: in a monitoring cycle in which both fetches returned, the window
\* of the workflow/session fetch and the window of the batch-job fetch
\* have the same start and the same end, whenever the cycle runs and
\* however long the first fetch lasts.
C22_SameWindowInCycle ==
    (cycle > 0 /\ wf_window.start.year # 0 /\ jobs_window.start.year # 0) =>
        /\ wf_window.start = jobs_window.start
        /\ wf_window.end = jobs_window.end

LastRowOf(js, name) == CHOOSE i \in RowsOf(js, name) : \A k \in RowsOf(js, name) : k <= i

LastRowWins(out, listing) ==
    /\ \A name \in Canonical :
         RowsOf(jobs, name) # {} =>
            /\ listing[GlyphOf(listing, name)][2] \in {"U+2705", "U+274C"}
            /\ listing[GlyphOf(listing, name)][2] = "U+2705"
                  <=> HoldsCompleted(jobs[LastRowOf(jobs, name)].Status)
    /\ out.total = Len(jobs)
    /\ out.failed =
         Cardinality({i \in 1..Len(jobs) : ~HoldsCompleted(jobs[i].Status)})

\* C23: when several fetched job rows have one display name, the glyph of
\* that name in the itemized listing is the classification of the last of
\* them in fetch order, while each of them is counted in the total and,
\* when it is not completed, in the failed count.
C23_LastRowGlyph ==
    /\ mdm_summary.state = "ok" =>
         LastRowWins(mdm_summary, mdm_summary.ordered_results)
    /\ (mdm_chat.state = "ok" /\ mdm_chat.detailed) =>
         LastRowWins(mdm_chat, mdm_chat.ordered_results)

\* A failed row of Party was followed by completed rows of all 32 entries:
\* 1 failed of 33 while every line of the listing shows the ok glyph.
C23_Witness ==
    /\ mdm_summary.state = "ok"
    /\ mdm_chat.state = "ok" /\ mdm_chat.detailed
    /\ Cardinality(RowsOf(jobs, "Party")) = 2
    /\ jobs[1].Display = "Party" /\ jobs[1].Status = TextFailed
    /\ mdm_summary.total = 33 /\ mdm_summary.failed = 1
    /\ \A k \in 1..Len(CUSTOM_ORDER) :
         /\ mdm_summary.ordered_results[k][2] = "U+2705"
         /\ mdm_chat.ordered_results[k][2] = "U+2705"

RECURSIVE Flatten(_)
Flatten(ss) == IF ss = <<>> THEN <<>> ELSE Head(ss) \o Flatten(Tail(ss))

HeaderRows(file) == {i \in 1..Len(file) : file[i] = header}

\* C25: after any number of runs of the resource-usage probe on one output
\* file that was absent at first, the file has exactly one header row, it
\* is the first row, and after it come the metric rows of the runs, those
\* of an earlier run before those of a later one, as they were written.
C25_OneHeader ==
    /\ written = <<>> => output_file = "absent"
    /\ written # <<>> =>
         /\ output_file # "absent"
         /\ HeaderRows(output_file) = {1}
         /\ SubSeq(output_file, 2, Len(output_file)) = Flatten(written)

\* Two runs: the second found the file of the first, which had read one
\* drive, and appended three rows of its own.
C25_Witness ==
    /\ Len(written) = 2
    /\ Len(written[1]) = 3 /\ Len(written[2]) = 4
    /\ Len(output_file) = 8
    /\ output_file[1] = <<"Timestamp", "Metric", "Value", "Threshold">>
    /\ output_file[4] = written[1][3]
    /\ output_file[5] = written[2][1]
    /\ output_file[5][2] = "CPU Usage"
    /\ output_file[5][1] # output_file[2][1]

DeliveryOrder ==
    <<[webhook |-> "WEBHOOK_CHAT", message |-> "pc_chat"],
      [webhook |-> "WEBHOOK_CHAT", message |-> "mdm_chat"],
      [webhook |-> "WEBHOOK_POST", message |-> "pc_summary"],
      [webhook |-> "WEBHOOK_POST", message |-> "mdm_summary"]>>

ProbesAndFetchesDone ==
    /\ svc.pc = "returned" /\ Len(pc_service) = 3
    /\ appPc = "returned" /\ Len(mdm_apps) = 2
    /\ wf_window.start.year # 0
    /\ jobs_window.start.year # 0
    /\ error.by \notin {"check_pc_service", "check_mdm_apps",
                        "get_recent_workflows_and_sessions",
                        "get_recent_jobs"}

\* C24: in a monitoring cycle a delivery is attempted only after both
\* probes and both fetches have returned; the attempts of the cycle are
\* the first ones of the order PowerCenter chat, MDM chat (chat webhook),
\* PowerCenter detailed, MDM detailed (post webhook), so there are at most
\* four and no post before both chat deliveries.
C24_DeliveryOrder ==
    /\ Len(sent) <= 4
    /\ \A i \in 1..Len(sent) :
         /\ i <= 4
         /\ sent[i].webhook = DeliveryOrder[i].webhook
         /\ sent[i].message = DeliveryOrder[i].message
    /\ sent # <<>> => (cycle > 0 /\ ProbesAndFetchesDone)

\* The four deliveries of a cycle were attempted after the probes and the
\* fetches, the chat summaries first.
C24_Witness ==
    /\ cycle > 0 /\ mpc = "return"
    /\ ProbesAndFetchesDone
    /\ Len(sent) = 4
    /\ sent[1].webhook = "WEBHOOK_CHAT" /\ sent[1].message = "pc_chat"
    /\ sent[2].webhook = "WEBHOOK_CHAT" /\ sent[2].message = "mdm_chat"
    /\ sent[3].webhook = "WEBHOOK_POST" /\ sent[3].message = "pc_summary"
    /\ sent[4].webhook = "WEBHOOK_POST" /\ sent[4].message = "mdm_summary"
    /\ pc_chat.state = "ok" /\ mdm_summary.state = "ok"

====
